---------------------------- MODULE Spec2Model ----------------------------
(***************************************************************************)
(* jira-api-cycle-times: the cycle-time pipeline of jira_client.py, and    *)
(* the board column cleaner of jira_column_cleaner.py.                     *)
(*                                                                         *)
(* One run of main() over an issue list that the search returned: the      *)
(* summary accumulation, the component and label analyses and the per-     *)
(* issue listing, each built on JiraClient.calculate_cycle_time. One run   *)
(* of the cleaner's main() from the check of its cleaning arguments to the *)
(* update of the board, and one call of its JiraClient.list_boards.        *)
(*                                                                         *)
(* Conventions.                                                            *)
(*   - A Python dict is a TLA+ function whose DOMAIN is the keys that are  *)
(*     present; d.get(k, default) is Get(d, k, default).                   *)
(*   - An optional value (None or a value) is a sequence of length <= 1:   *)
(*     None is << >> and a present value x is << x >>.                     *)
(*   - A status name is a sequence of one-character strings, so that       *)
(*     str.lower() and str.strip() are computed character by character.    *)
(*   - A datetime is a number of hours since day 0, 00:00; a timedelta is  *)
(*     a difference of two of them, in hours.                              *)
(*   - An insertion-ordered dict (component_data, label_data, the stats)   *)
(*     is a sequence of entries in insertion order.                        *)
(*   - Standard output is a sequence of units, each naming the lines that  *)
(*     one print wrote and the issue they are about.                       *)
(*   - An exception that leaves a function is the field raised of its      *)
(*     result; main then ends with pc = << "exit 1" >>.                    *)
(***************************************************************************)
EXTENDS Integers, Sequences, FiniteSets, TLC

VARIABLES
    issues,                 \* the issue list returned by the search
    in_progress_statuses,   \* configured in-progress status names
    done_statuses,          \* configured done status names
    args,                   \* output_format, component_analysis, label_analysis
    pc,                     \* position of main()
    cycle_infos,            \* cycle_info of each issue of the summary loop
    valid_cycle_times,      \* main: valid_cycle_times
    total_cycle_time,       \* main: total_cycle_time
    component_data,         \* result of analyze_components (None: not run)
    label_data,             \* result of analyze_labels (None: not run)
    component_stats,        \* component_stats of the component display
    label_stats,            \* label_stats of the label display
    summary,                \* the overall summary section that was emitted
    issue_rows,             \* the per-issue section that was emitted
    stdout,                 \* what the run has printed to standard output
    first,                  \* what the first of two runs left (None: first run)
    c_args,                 \* column cleaner: the parsed arguments
    board,                  \* column cleaner: the configuration on the server
    config,                 \* column cleaner main: config (as fetched, then edited)
    server,                 \* column cleaner: the answer to each status lookup
    cpc,                    \* column cleaner: position of main() or list_boards()
    keep_statuses,          \* column cleaner main: keep_statuses
    announced,              \* column cleaner main: the mode it announced
    cleaned,                \* column cleaner main: what clean_column_statuses returned
    answer,                 \* column cleaner main: what the user typed at the prompt
    puts,                   \* column cleaner: the configurations sent by PUT
    board_server,           \* list_boards: the boards on the server and its page size
    start_at,               \* list_boards: start_at
    all_boards              \* list_boards: all_boards

vars == << issues, in_progress_statuses, done_statuses, args, pc, cycle_infos,
           valid_cycle_times, total_cycle_time, component_data, label_data,
           component_stats, label_stats, summary, issue_rows, stdout,
           first, c_args, board, config, server, cpc, keep_statuses,
           announced, cleaned, answer, puts, board_server, start_at,
           all_boards >>

\* The variables of jira_client.py and those of jira_column_cleaner.py
client_vars ==
    << issues, in_progress_statuses, done_statuses, args, pc, cycle_infos,
       valid_cycle_times, total_cycle_time, component_data, label_data,
       component_stats, label_stats, summary, issue_rows, stdout, first >>

cleaner_vars ==
    << c_args, board, config, server, cpc, keep_statuses, announced, cleaned,
       answer, puts, board_server, start_at, all_boards >>

-----------------------------------------------------------------------------
(* Bounds of the model *)

MaxHist == 3

MaxIssues == 2

-----------------------------------------------------------------------------
(* Python values *)

None == << >>

Some(x) == << x >>

Val(o) == o[1]

Get(d, k, default) == IF k \in DOMAIN d THEN d[k] ELSE default

Range(s) == { s[i] : i \in 1..Len(s) }

-----------------------------------------------------------------------------
(* str.lower() and str.strip() *)

LowerChar(c) ==
    CASE c = "A" -> "a" [] c = "C" -> "c" [] c = "D" -> "d" [] c = "E" -> "e"
      [] c = "I" -> "i" [] c = "N" -> "n" [] c = "O" -> "o" [] c = "P" -> "p"
      [] c = "T" -> "t" [] c = "V" -> "v"
      [] OTHER -> c

lower(s) == [ i \in 1..Len(s) |-> LowerChar(s[i]) ]

Whitespace == { " ", "\t", "\n" }

RECURSIVE lstrip(_)
lstrip(s) ==
    IF s # << >> /\ Head(s) \in Whitespace THEN lstrip(Tail(s)) ELSE s

RECURSIVE rstrip(_)
rstrip(s) ==
    IF s # << >> /\ s[Len(s)] \in Whitespace
    THEN rstrip(SubSeq(s, 1, Len(s) - 1))
    ELSE s

strip(s) == rstrip(lstrip(s))

\* Normalize without the strip()
Normalize_CaseOnly(s) == lower(s)

\* status.lower().strip()
Normalize(s) == strip(lower(s))

\* [status.lower().strip() for status in statuses]
LowerList(statuses) == [ i \in 1..Len(statuses) |-> Normalize(statuses[i]) ]

-----------------------------------------------------------------------------
(* JiraClient.calculate_cycle_time *)

\* datetime.strptime(history['created'][:19], '%Y-%m-%dT%H:%M:%S'): the first
\* 19 characters are the date and the time of day; what follows them (the
\* fraction of a second, the zone offset) is cut off.
strptime19(created) == created.day * 24 + created.hour

\* to_status in in_progress_lower
InList(x, list) == \E i \in 1..Len(list) : list[i] = x

\* ScanItem with the done test as an "if" of its own instead of an "elif"
ScanItem_BothTests(item, created_date, dates, in_progress_lower, done_lower) ==
    IF "field" \in DOMAIN item /\ item.field = "status"
    THEN LET to_status == Normalize(Get(item, "toString", << >>))
             d1 == IF InList(to_status, in_progress_lower)
                   THEN [dates EXCEPT !.in_progress_date = Some(created_date)]
                   ELSE dates
         IN  IF InList(to_status, done_lower)
             THEN [d1 EXCEPT !.done_date = Some(created_date)]
             ELSE d1
    ELSE dates

\* ScanItem keeping the chronologically latest in-progress transition
ScanItem_LatestWins(item, created_date, dates, in_progress_lower, done_lower) ==
    IF "field" \in DOMAIN item /\ item.field = "status"
    THEN LET to_status == Normalize(Get(item, "toString", << >>))
         IN  IF InList(to_status, in_progress_lower)
             THEN IF dates.in_progress_date = None
                     \/ Val(dates.in_progress_date) < created_date
                  THEN [dates EXCEPT !.in_progress_date = Some(created_date)]
                  ELSE dates
             ELSE IF InList(to_status, done_lower)
                  THEN [dates EXCEPT !.done_date = Some(created_date)]
                  ELSE dates
    ELSE dates

\* ScanItem keeping the first in-progress transition instead of the last
ScanItem_FirstWins(item, created_date, dates, in_progress_lower, done_lower) ==
    IF "field" \in DOMAIN item /\ item.field = "status"
    THEN LET to_status == Normalize(Get(item, "toString", << >>))
         IN  IF InList(to_status, in_progress_lower)
             THEN IF dates.in_progress_date = None
                  THEN [dates EXCEPT !.in_progress_date = Some(created_date)]
                  ELSE dates
             ELSE IF InList(to_status, done_lower)
                  THEN [dates EXCEPT !.done_date = Some(created_date)]
                  ELSE dates
    ELSE dates

\* The body of the loop over a history's items: dates holds in_progress_date
\* and done_date.
ScanItem(item, created_date, dates, in_progress_lower, done_lower) ==
    IF "field" \in DOMAIN item /\ item.field = "status"
    THEN LET to_status == Normalize(Get(item, "toString", << >>))
         IN  IF InList(to_status, in_progress_lower)
             THEN [dates EXCEPT !.in_progress_date = Some(created_date)]
             ELSE IF InList(to_status, done_lower)
                  THEN [dates EXCEPT !.done_date = Some(created_date)]
                  ELSE dates
    ELSE dates

RECURSIVE ScanItems(_, _, _, _, _)
ScanItems(items, created_date, dates, in_progress_lower, done_lower) ==
    IF items = << >>
    THEN dates
    ELSE ScanItems(Tail(items), created_date,
                   ScanItem(Head(items), created_date, dates,
                            in_progress_lower, done_lower),
                   in_progress_lower, done_lower)

\* The loop over the histories. history['created'] raises KeyError when the
\* key is missing, which ends the call.
RECURSIVE ScanHistories(_, _, _, _)
ScanHistories(histories, dates, in_progress_lower, done_lower) ==
    IF histories = << >>
    THEN dates
    ELSE LET history == Head(histories)
         IN  IF "created" \notin DOMAIN history
             THEN [dates EXCEPT !.raised = TRUE]
             ELSE ScanHistories(Tail(histories),
                                ScanItems(Get(history, "items", << >>),
                                          strptime19(history.created), dates,
                                          in_progress_lower, done_lower),
                                in_progress_lower, done_lower)

\* timedelta_days with a negative duration clamped to 0
timedelta_days_Clamped(delta) == IF delta < 0 THEN 0 ELSE delta \div 24

\* timedelta_days rounding toward zero
timedelta_days_Truncated(delta) ==
    IF delta >= 0 THEN delta \div 24 ELSE -((-delta) \div 24)

\* timedelta.days of a timedelta of delta hours: timedelta keeps
\* 0 <= seconds < 86400, so days is the floor of the quotient.
timedelta_days(delta) == delta \div 24

\* CycleTimeDays starting from cycle_time_days = 0 instead of None
CycleTimeDays_ZeroDefault(in_progress_date, done_date) ==
    IF in_progress_date # None /\ done_date # None
    THEN Some((Val(done_date) - Val(in_progress_date)) \div 24)
    ELSE Some(0)

\* cycle_time_days = None; if in_progress_date and done_date: ...
CycleTimeDays(in_progress_date, done_date) ==
    IF in_progress_date # None /\ done_date # None
    THEN Some(timedelta_days(Val(done_date) - Val(in_progress_date)))
    ELSE None

\* calculate_cycle_time returning every field absent unless both timestamps
\* were found
calculate_cycle_time_AllOrNothing(issue, ip_statuses, d_statuses) ==
    LET changelog == Get(issue, "changelog", << >>)
        histories == Get(changelog, "histories", << >>)
        dates     == ScanHistories(histories,
                                   [raised |-> FALSE,
                                    in_progress_date |-> None,
                                    done_date |-> None],
                                   LowerList(ip_statuses),
                                   LowerList(d_statuses))
    IN  IF dates.raised
        THEN [raised |-> TRUE, in_progress_date |-> None, done_date |-> None,
              cycle_time_days |-> None]
        ELSE IF dates.in_progress_date = None \/ dates.done_date = None
             THEN [raised |-> FALSE, in_progress_date |-> None,
                   done_date |-> None, cycle_time_days |-> None]
             ELSE [raised |-> FALSE,
                   in_progress_date |-> dates.in_progress_date,
                   done_date |-> dates.done_date,
                   cycle_time_days |-> CycleTimeDays(dates.in_progress_date,
                                                     dates.done_date)]

\* The returned dict; raised is TRUE when the call raised instead.
calculate_cycle_time(issue, ip_statuses, d_statuses) ==
    LET changelog == Get(issue, "changelog", << >>)
        histories == Get(changelog, "histories", << >>)
        dates     == ScanHistories(histories,
                                   [raised |-> FALSE,
                                    in_progress_date |-> None,
                                    done_date |-> None],
                                   LowerList(ip_statuses),
                                   LowerList(d_statuses))
    IN  IF dates.raised
        THEN [raised |-> TRUE, in_progress_date |-> None, done_date |-> None,
              cycle_time_days |-> None]
        ELSE [raised |-> FALSE,
              in_progress_date |-> dates.in_progress_date,
              done_date |-> dates.done_date,
              cycle_time_days |-> CycleTimeDays(dates.in_progress_date,
                                                dates.done_date)]

-----------------------------------------------------------------------------
(* analyze_components and analyze_labels *)

HasGroup(data, name) == \E i \in 1..Len(data) : data[i].name = name

\* AddTicket putting the ticket at the front of the group's list
AddTicket_Prepend(data, name, ticket) ==
    IF HasGroup(data, name)
    THEN [ i \in 1..Len(data) |->
             IF data[i].name = name
             THEN [data[i] EXCEPT !.tickets = << ticket >> \o @]
             ELSE data[i] ]
    ELSE Append(data, [name |-> name, tickets |-> << ticket >>])

\* if name not in data: data[name] = []; data[name].append(ticket)
AddTicket(data, name, ticket) ==
    IF HasGroup(data, name)
    THEN [ i \in 1..Len(data) |->
             IF data[i].name = name
             THEN [data[i] EXCEPT !.tickets = Append(@, ticket)]
             ELSE data[i] ]
    ELSE Append(data, [name |-> name, tickets |-> << ticket >>])

\* AddToGroups adding the ticket to the group of the first name only
AddToGroups_FirstOnly(data, names, ticket) ==
    IF names = << >> THEN data ELSE AddTicket(data, Head(names), ticket)

\* for name in names: add the ticket to the group of that name
RECURSIVE AddToGroups(_, _, _)
AddToGroups(data, names, ticket) ==
    IF names = << >>
    THEN data
    ELSE AddToGroups(AddTicket(data, Head(names), ticket), Tail(names), ticket)

\* [comp['name'] for comp in components] if components else ['No components']
ComponentNames(issue) ==
    LET components == Get(issue.fields, "components", << >>)
    IN  IF components # << >>
        THEN [ i \in 1..Len(components) |-> components[i].name ]
        ELSE << "No components" >>

\* labels if labels else ['No labels']
LabelNames(issue) ==
    LET labels == Get(issue.fields, "labels", << >>)
    IN  IF labels # << >> THEN labels ELSE << "No labels" >>

\* issue['fields']['summary'] does not raise KeyError
HasSummary(issue) == "summary" \in DOMAIN issue.fields

\* if cycle_time is None: continue
SkipIssue(cycle_info) == cycle_info.cycle_time_days = None

\* data with an empty group for each of the names it has no group of
RECURSIVE EnsureGroups(_, _)
EnsureGroups(data, names) ==
    IF names = << >>
    THEN data
    ELSE EnsureGroups(IF HasGroup(data, Head(names))
                      THEN data
                      ELSE Append(data, [name |-> Head(names), tickets |-> << >>]),
                      Tail(names))

\* AnalyzeIssue creating the groups of an issue before the test of its cycle
\* time
AnalyzeIssue_GroupsFirst(acc, issue, names, ip_statuses, d_statuses) ==
    LET cycle_info == calculate_cycle_time(issue, ip_statuses, d_statuses)
    IN  IF acc.raised \/ ~HasSummary(issue) \/ cycle_info.raised
        THEN [acc EXCEPT !.raised = TRUE]
        ELSE IF SkipIssue(cycle_info)
             THEN [acc EXCEPT !.data = EnsureGroups(@, names)]
             ELSE [acc EXCEPT !.data =
                     AddToGroups(@, names,
                                 [key |-> issue.key,
                                  summary |-> issue.fields.summary,
                                  cycle_time |-> Val(cycle_info.cycle_time_days),
                                  cycle_info |-> cycle_info])]

\* AnalyzeIssue without the "continue": an issue without a cycle time is
\* entered with 0 days
AnalyzeIssue_AbsentAsZero(acc, issue, names, ip_statuses, d_statuses) ==
    LET cycle_info == calculate_cycle_time(issue, ip_statuses, d_statuses)
    IN  IF acc.raised \/ ~HasSummary(issue) \/ cycle_info.raised
        THEN [acc EXCEPT !.raised = TRUE]
        ELSE [acc EXCEPT !.data =
                AddToGroups(@, names,
                            [key |-> issue.key,
                             summary |-> issue.fields.summary,
                             cycle_time |-> IF cycle_info.cycle_time_days = None
                                            THEN 0
                                            ELSE Val(cycle_info.cycle_time_days),
                             cycle_info |-> cycle_info])]

\* The body of the loop over the issues, the same in both functions: acc holds
\* the mapping built so far, and raised once calculate_cycle_time has raised.
AnalyzeIssue(acc, issue, names, ip_statuses, d_statuses) ==
    LET cycle_info == calculate_cycle_time(issue, ip_statuses, d_statuses)
    IN  IF acc.raised \/ ~HasSummary(issue) \/ cycle_info.raised
        THEN [acc EXCEPT !.raised = TRUE]
        ELSE IF SkipIssue(cycle_info)
             THEN acc
             ELSE [acc EXCEPT !.data =
                     AddToGroups(@, names,
                                 [key |-> issue.key,
                                  summary |-> issue.fields.summary,
                                  cycle_time |-> Val(cycle_info.cycle_time_days),
                                  cycle_info |-> cycle_info])]

RECURSIVE AnalyzeComponentsFrom(_, _, _, _)
AnalyzeComponentsFrom(acc, list, ip_statuses, d_statuses) ==
    IF list = << >>
    THEN acc
    ELSE AnalyzeComponentsFrom(
             AnalyzeIssue(acc, Head(list), ComponentNames(Head(list)),
                          ip_statuses, d_statuses),
             Tail(list), ip_statuses, d_statuses)

analyze_components(list, ip_statuses, d_statuses) ==
    AnalyzeComponentsFrom([raised |-> FALSE, data |-> << >>], list,
                          ip_statuses, d_statuses)

RECURSIVE AnalyzeLabelsFrom(_, _, _, _)
AnalyzeLabelsFrom(acc, list, ip_statuses, d_statuses) ==
    IF list = << >>
    THEN acc
    ELSE AnalyzeLabelsFrom(
             AnalyzeIssue(acc, Head(list), LabelNames(Head(list)),
                          ip_statuses, d_statuses),
             Tail(list), ip_statuses, d_statuses)

analyze_labels(list, ip_statuses, d_statuses) ==
    AnalyzeLabelsFrom([raised |-> FALSE, data |-> << >>], list,
                      ip_statuses, d_statuses)

-----------------------------------------------------------------------------
(* The statistics and the ranking of the analysis displays *)

\* sum(cycle_times)
RECURSIVE sum(_)
sum(s) == IF s = << >> THEN 0 ELSE Head(s) + sum(Tail(s))

\* min(cycle_times), of a list that is not empty
RECURSIVE min(_)
min(s) ==
    IF Len(s) = 1
    THEN s[1]
    ELSE LET m == min(Tail(s)) IN IF Head(s) <= m THEN Head(s) ELSE m

\* max(cycle_times), of a list that is not empty
RECURSIVE max(_)
max(s) ==
    IF Len(s) = 1
    THEN s[1]
    ELSE LET m == max(Tail(s)) IN IF Head(s) >= m THEN Head(s) ELSE m

\* a / b, kept as the fraction
Quotient(a, b) == [num |-> a, den |-> b]

\* x < y of two quotients with positive denominators
QuotientLess(x, y) == x.num * y.den < y.num * x.den

\* GroupStats dividing by one more than the number of tickets
GroupStats_WrongDivisor(group) ==
    LET cycle_times == [ i \in 1..Len(group.tickets) |->
                           group.tickets[i].cycle_time ]
    IN  [name    |-> group.name,
         count   |-> Len(group.tickets),
         total   |-> sum(cycle_times),
         average |-> Quotient(sum(cycle_times), Len(cycle_times) + 1),
         min     |-> min(cycle_times),
         max     |-> max(cycle_times),
         tickets |-> group.tickets]

\* The stats entry of one group
GroupStats(group) ==
    LET cycle_times == [ i \in 1..Len(group.tickets) |->
                           group.tickets[i].cycle_time ]
    IN  [name    |-> group.name,
         count   |-> Len(group.tickets),
         total   |-> sum(cycle_times),
         average |-> Quotient(sum(cycle_times), Len(cycle_times)),
         min     |-> min(cycle_times),
         max     |-> max(cycle_times),
         tickets |-> group.tickets]

\* for component, tickets in component_data.items(): if tickets: ...
RECURSIVE StatsOf(_)
StatsOf(data) ==
    IF data = << >>
    THEN << >>
    ELSE IF Head(data).tickets # << >>
         THEN << GroupStats(Head(data)) >> \o StatsOf(Tail(data))
         ELSE StatsOf(Tail(data))

\* InsertByAverage putting e before the entries of the same average
RECURSIVE InsertByAverage_TiesReversed(_, _)
InsertByAverage_TiesReversed(sorted, e) ==
    IF sorted = << >>
    THEN << e >>
    ELSE IF ~QuotientLess(e.average, Head(sorted).average)
         THEN << e >> \o sorted
         ELSE << Head(sorted) >> \o InsertByAverage_TiesReversed(Tail(sorted), e)

\* One insertion of the stable sort: e goes after every entry whose average
\* is not less than its own.
RECURSIVE InsertByAverage(_, _)
InsertByAverage(sorted, e) ==
    IF sorted = << >>
    THEN << e >>
    ELSE IF QuotientLess(Head(sorted).average, e.average)
         THEN << e >> \o sorted
         ELSE << Head(sorted) >> \o InsertByAverage(Tail(sorted), e)

\* sorted(stats.items(), key=lambda x: x[1]['average'], reverse=True)
RECURSIVE SortedByAverage(_)
SortedByAverage(stats) ==
    IF stats = << >>
    THEN << >>
    ELSE InsertByAverage(SortedByAverage(SubSeq(stats, 1, Len(stats) - 1)),
                         stats[Len(stats)])

-----------------------------------------------------------------------------
(* The inputs of a run *)

Active == << "A", "c", "t", "i", "v", "e" >>

Done == << "D", "o", "n", "e" >>

Open == << "O", "p", "e", "n" >>

\* " DONE": another spelling of Done, as the tracker may send it
DoneSpelled == << " ", "D", "O", "N", "E" >>

\* "ACTIVE" and "done": the configured names in another case
ActiveUpper == << "A", "C", "T", "I", "V", "E" >>

DoneLower == << "d", "o", "n", "e" >>

\* The configured status lists, as parse_labels leaves them (trimmed)
Configs ==
    { [in_progress |-> << Active >>, done |-> << Done >>],
      [in_progress |-> << Active, Done >>, done |-> << Done >>],
      [in_progress |-> << ActiveUpper >>, done |-> << DoneLower >>] }

\* 'created' strings: 2024-01-<day>T<hour>:00:00 and what follows
Created(day, hour) == [day |-> day, hour |-> hour, rest |-> ".000+0000"]

CreatedPool == { Created(1, 0), Created(5, 0), Created(5, 12) }

StatusItem(to) == [field |-> "status", toString |-> to]

\* The events of a history: a transition to Active or to Done at each time, a
\* transition to Open, a change of another field, a respelled Done, and an
\* event with two status items
EventPool ==
    { [created |-> c, items |-> << StatusItem(to) >>] :
        c \in CreatedPool, to \in { Active, Done } }
    \cup
    { [created |-> Created(5, 0), items |-> << StatusItem(Open) >>],
      [created |-> Created(1, 0),
       items |-> << [field |-> "assignee", toString |-> Done] >>],
      [created |-> Created(5, 12), items |-> << StatusItem(DoneSpelled) >>],
      [created |-> Created(5, 0),
       items |-> << StatusItem(Active), StatusItem(Done) >>] }

SeqsUpTo(S, n) == UNION { [1..k -> S] : k \in 0..n }

Issue(key, labels, components, histories) ==
    [key       |-> key,
     fields    |-> [summary    |-> "summary of " \o key,
                    status     |-> [name |-> "Done"],
                    labels     |-> labels,
                    components |-> [ i \in 1..Len(components) |->
                                       [name |-> components[i]] ]],
     changelog |-> [histories |-> histories]]

\* The example of the specification: In Progress on 2024-01-02T09:00:00 and
\* Done on 2024-01-10T17:00:00
ExampleHistory ==
    << [created |-> Created(2, 9), items |-> << StatusItem(Active) >>],
       [created |-> Created(10, 17), items |-> << StatusItem(Done) >>] >>

Keys == << "X-1", "X-2", "X-3", "X-4" >>

Event(day, hour, to) ==
    [created |-> Created(day, hour), items |-> << StatusItem(to) >>]

\* Histories of the issues of an aggregation run: no transition, in progress
\* only, 4 days, 12 hours, and done 4 days before in progress
HistoryPool ==
    { << >>,
      << Event(1, 0, Active) >>,
      << Event(1, 0, Active), Event(5, 0, Done) >>,
      << Event(5, 0, Active), Event(5, 12, Done) >>,
      << Event(1, 0, Done), Event(5, 0, Active) >> }

\* labels and components of the issues of an aggregation run
DimensionPool ==
    { [labels |-> << >>, components |-> << >>],
      [labels |-> << "bug" >>, components |-> << "api" >>],
      [labels |-> << "bug", "urgent" >>, components |-> << "api", "ui" >>] }

IssueLists(n) ==
    UNION { { [ i \in 1..k |-> Issue(Keys[i], d[i].labels, d[i].components, h[i]) ] :
                d \in [1..k -> DimensionPool], h \in [1..k -> HistoryPool] } :
            k \in 0..n }

Formats == { "console", "markdown", "html", "confluence", "csv" }

-----------------------------------------------------------------------------
(* main *)

\* One unit of the output stream: kind names the lines that were printed and
\* key the issue they are about ("" when they are about none)
Line(kind) == [kind |-> kind, key |-> ""]

IssueLine(kind, key) == [kind |-> kind, key |-> key]

\* parse_arguments accepting any --output-format
parse_arguments_AnyFormat(a) == TRUE

\* parse_arguments: --output-format has choices, and parse_args() ends the
\* process with status 2 on any other value. TRUE when the arguments parse.
parse_arguments(a) == a.output_format \in Formats

\* What main and the client print on the way to the search result: the search
\* criteria, the connection and debug lines, and the JQL query
Preamble ==
    << Line("criteria"), Line("connecting"), Line("searching"), Line("debug"),
       Line("connection"), Line("jql") >>

\* The sections main emits after the summary accumulation, in order
Steps(output_format) ==
    CASE output_format = "markdown" -> << "summary", "components", "labels", "issues" >>
      [] output_format = "html" -> << "summary", "issues" >>
      [] output_format = "csv" -> << "issues" >>
      [] output_format = "confluence" -> << "summary", "issues" >>
      [] OTHER -> << "issues", "summary", "components", "labels" >>

\* jira_column_cleaner.py is not running
CleanerIdle ==
    /\ c_args = None
    /\ board = None
    /\ config = None
    /\ server = None
    /\ cpc = << >>
    /\ keep_statuses = << >>
    /\ announced = None
    /\ cleaned = None
    /\ answer = None
    /\ puts = << >>
    /\ board_server = None
    /\ start_at = 0
    /\ all_boards = << >>

InitRun ==
    /\ pc = << "start" >>
    /\ stdout = << >>
    /\ first = None
    /\ cycle_infos = << >>
    /\ valid_cycle_times = << >>
    /\ total_cycle_time = 0
    /\ component_data = None
    /\ label_data = None
    /\ component_stats = None
    /\ label_stats = None
    /\ summary = None
    /\ issue_rows = None
    /\ CleanerIdle

\* A value of --output-format that is not among the choices
Unrecognized == "xml"

\* A run over any issue list, any analysis options and any --output-format
Init ==
    /\ issues \in IssueLists(MaxIssues)
    /\ in_progress_statuses = << Active >>
    /\ done_statuses = << Done >>
    /\ args \in [output_format : Formats \cup { Unrecognized },
                 component_analysis : BOOLEAN, label_analysis : BOOLEAN]
    /\ InitRun

\* The encodings whose first section is the per-issue section
ListingFormats == { "console", "csv" }

\* A run over one issue with any history and any configuration, or over no
\* issue
InitCalc ==
    /\ \/ \E h \in SeqsUpTo(EventPool, MaxHist) \cup { ExampleHistory } :
            issues = << Issue(Keys[1], << "bug" >>, << "api" >>, h) >>
       \/ issues = << >>
    /\ \E c \in Configs :
         /\ in_progress_statuses = c.in_progress
         /\ done_statuses = c.done
    /\ args \in [output_format : ListingFormats,
                 component_analysis : { TRUE }, label_analysis : { TRUE }]
    /\ InitRun

\* main up to the return of the search: the arguments are parsed, and what
\* precedes the issues is printed
Search ==
    /\ pc = << "start" >>
    /\ IF parse_arguments(args)
       THEN /\ stdout' = stdout \o Preamble
            /\ pc' = << "search" >>
       ELSE /\ pc' = << "exit 2" >>
            /\ UNCHANGED stdout
    /\ UNCHANGED << issues, in_progress_statuses, done_statuses, args, first,
                    cycle_infos, valid_cycle_times, total_cycle_time,
                    component_data, label_data, component_stats, label_stats,
                    summary, issue_rows >>
    /\ UNCHANGED cleaner_vars

\* The line printed when the search returned no issue
NoIssuesLine(output_format) ==
    CASE output_format = "markdown" -> Line("markdown_no_issues")
      [] output_format = "html" -> Line("html_no_issues")
      [] output_format = "confluence" -> Line("confluence_no_issues")
      [] output_format = "csv" -> Line("csv_header")
      [] OTHER -> Line("console_no_issues")

\* NoIssues ending the run with the failure status
NoIssues_AsFailure ==
    /\ pc = << "search" >>
    /\ issues = << >>
    /\ pc' = << "exit 1" >>
    /\ UNCHANGED << issues, in_progress_statuses, done_statuses, args, first,
                    stdout, cycle_infos, valid_cycle_times, total_cycle_time,
                    component_data, label_data, component_stats, label_stats,
                    summary, issue_rows >>
    /\ UNCHANGED cleaner_vars

\* if not issues: print the no-issues line of the encoding; return
NoIssues ==
    /\ pc = << "search" >>
    /\ issues = << >>
    /\ stdout' = Append(stdout, NoIssuesLine(args.output_format))
    /\ pc' = << >>
    /\ UNCHANGED << issues, in_progress_statuses, done_statuses, args, first,
                    cycle_infos, valid_cycle_times, total_cycle_time,
                    component_data, label_data, component_stats, label_stats,
                    summary, issue_rows >>
    /\ UNCHANGED cleaner_vars

\* Present keeping an absent value as 0 days
RECURSIVE Present_AbsentAsZero(_)
Present_AbsentAsZero(s) ==
    IF s = << >>
    THEN << >>
    ELSE IF Head(s) # None
         THEN << Val(Head(s)) >> \o Present_AbsentAsZero(Tail(s))
         ELSE << 0 >> \o Present_AbsentAsZero(Tail(s))

\* The values of a list of optional values that are not None
RECURSIVE Present(_)
Present(s) ==
    IF s = << >>
    THEN << >>
    ELSE IF Head(s) # None
         THEN << Val(Head(s)) >> \o Present(Tail(s))
         ELSE Present(Tail(s))

\* The opening lines of the branch of an encoding; the csv branch prints
\* nothing before its table
Header(output_format) ==
    CASE output_format = "markdown" -> << Line("markdown_header") >>
      [] output_format = "html" -> << Line("html_header") >>
      [] output_format = "csv" -> << >>
      [] output_format = "confluence" -> << Line("confluence_header") >>
      [] OTHER -> << Line("console_found") >>

\* Summarize adding to the total it finds instead of starting from 0
Summarize_Accumulating ==
    /\ pc = << "search" >>
    /\ issues # << >>
    /\ LET infos == [ i \in 1..Len(issues) |->
                        calculate_cycle_time(issues[i], in_progress_statuses,
                                             done_statuses) ]
           days  == Present([ i \in 1..Len(issues) |-> infos[i].cycle_time_days ])
       IN  IF \E i \in 1..Len(issues) : infos[i].raised
           THEN /\ pc' = << "exit 1" >>
                /\ UNCHANGED << cycle_infos, valid_cycle_times,
                                total_cycle_time, stdout >>
           ELSE /\ pc' = Steps(args.output_format)
                /\ cycle_infos' = infos
                /\ valid_cycle_times' = days
                /\ total_cycle_time' = total_cycle_time + sum(days)
                /\ stdout' = stdout \o Header(args.output_format)
    /\ UNCHANGED << issues, in_progress_statuses, done_statuses, args, first,
                    component_data, label_data, component_stats, label_stats,
                    summary, issue_rows >>
    /\ UNCHANGED cleaner_vars

\* "Calculate cycle times for all issues", then the opening lines of the
\* branch of the encoding; an exception ends the run
Summarize ==
    /\ pc = << "search" >>
    /\ issues # << >>
    /\ LET infos == [ i \in 1..Len(issues) |->
                        calculate_cycle_time(issues[i], in_progress_statuses,
                                             done_statuses) ]
           days  == Present([ i \in 1..Len(issues) |-> infos[i].cycle_time_days ])
       IN  IF \E i \in 1..Len(issues) : infos[i].raised
           THEN /\ pc' = << "exit 1" >>
                /\ UNCHANGED << cycle_infos, valid_cycle_times,
                                total_cycle_time, stdout >>
           ELSE /\ pc' = Steps(args.output_format)
                /\ cycle_infos' = infos
                /\ valid_cycle_times' = days
                /\ total_cycle_time' = sum(days)
                /\ stdout' = stdout \o Header(args.output_format)
    /\ UNCHANGED << issues, in_progress_statuses, done_statuses, args, first,
                    component_data, label_data, component_stats, label_stats,
                    summary, issue_rows >>
    /\ UNCHANGED cleaner_vars

\* The overall summary section of the console branch
SummaryOf(times, total, issues_count) ==
    IF times = << >>
    THEN [no_data |-> TRUE]
    ELSE [no_data      |-> FALSE,
          count        |-> Len(times),
          issues_count |-> issues_count,
          average      |-> Quotient(total, Len(times)),
          min          |-> min(times),
          max          |-> max(times),
          total        |-> total]

\* format_markdown_summary taking the total from the list it is given
format_markdown_summary_OwnTotal(valid_cycle_times_, total_cycle_time_, issues_count) ==
    IF valid_cycle_times_ = << >>
    THEN [no_data |-> TRUE]
    ELSE [no_data      |-> FALSE,
          count        |-> Len(valid_cycle_times_),
          issues_count |-> issues_count,
          average      |-> Quotient(total_cycle_time_, Len(valid_cycle_times_)),
          min          |-> min(valid_cycle_times_),
          max          |-> max(valid_cycle_times_),
          total        |-> max(valid_cycle_times_)]

format_markdown_summary(valid_cycle_times_, total_cycle_time_, issues_count) ==
    IF valid_cycle_times_ = << >>
    THEN [no_data |-> TRUE]
    ELSE LET avg_cycle_time == Quotient(total_cycle_time_, Len(valid_cycle_times_))
             min_cycle_time == min(valid_cycle_times_)
             max_cycle_time == max(valid_cycle_times_)
         IN  [no_data      |-> FALSE,
              count        |-> Len(valid_cycle_times_),
              issues_count |-> issues_count,
              average      |-> avg_cycle_time,
              min          |-> min_cycle_time,
              max          |-> max_cycle_time,
              total        |-> total_cycle_time_]

format_html_summary(valid_cycle_times_, total_cycle_time_, issues_count) ==
    IF valid_cycle_times_ = << >>
    THEN [no_data |-> TRUE]
    ELSE LET avg_cycle_time == Quotient(total_cycle_time_, Len(valid_cycle_times_))
             min_cycle_time == min(valid_cycle_times_)
             max_cycle_time == max(valid_cycle_times_)
         IN  [no_data      |-> FALSE,
              count        |-> Len(valid_cycle_times_),
              issues_count |-> issues_count,
              average      |-> avg_cycle_time,
              min          |-> min_cycle_time,
              max          |-> max_cycle_time,
              total        |-> total_cycle_time_]

\* The overall summary of the confluence branch
ConfluenceSummary(times, total, issues_count) ==
    IF times # << >>
    THEN [no_data      |-> FALSE,
          count        |-> Len(times),
          issues_count |-> issues_count,
          average      |-> Quotient(total, Len(times)),
          min          |-> min(times),
          max          |-> max(times),
          total        |-> total]
    ELSE [no_data |-> TRUE]

\* The overall summary as the branch of the encoding renders it
SummaryFor(output_format, times, total, issues_count) ==
    CASE output_format = "markdown" ->
             format_markdown_summary(times, total, issues_count)
      [] output_format = "html" ->
             format_html_summary(times, total, issues_count)
      [] output_format = "confluence" ->
             ConfluenceSummary(times, total, issues_count)
      [] OTHER -> SummaryOf(times, total, issues_count)

ShowSummary ==
    /\ pc # << >>
    /\ Head(pc) = "summary"
    /\ summary' = Some(SummaryFor(args.output_format, valid_cycle_times,
                                  total_cycle_time, Len(issues)))
    /\ stdout' = Append(stdout, Line("summary"))
    /\ pc' = Tail(pc)
    /\ UNCHANGED << issues, in_progress_statuses, done_statuses, args, first,
                    cycle_infos, valid_cycle_times, total_cycle_time,
                    component_data, label_data, component_stats, label_stats,
                    issue_rows >>
    /\ UNCHANGED cleaner_vars

\* What an analysis display prints: the no-data message for an empty mapping,
\* else the ranking and the breakdown by group
AnalysisLines(dimension, data) ==
    IF data = << >>
    THEN << Line(dimension \o "_no_data") >>
    ELSE << Line(dimension \o "_ranking"), Line(dimension \o "_breakdown") >>

\* if args.component_analysis: analyze_components, then its display
ComponentAnalysis ==
    /\ pc # << >>
    /\ Head(pc) = "components"
    /\ IF args.component_analysis
       THEN LET r == analyze_components(issues, in_progress_statuses, done_statuses)
            IN  IF r.raised
                THEN /\ pc' = << "exit 1" >>
                     /\ UNCHANGED << component_data, component_stats, stdout >>
                ELSE /\ pc' = Tail(pc)
                     /\ component_data' = Some(r.data)
                     /\ component_stats' = Some(SortedByAverage(StatsOf(r.data)))
                     /\ stdout' = stdout \o AnalysisLines("component", r.data)
       ELSE /\ pc' = Tail(pc)
            /\ UNCHANGED << component_data, component_stats, stdout >>
    /\ UNCHANGED << issues, in_progress_statuses, done_statuses, args, first,
                    cycle_infos, valid_cycle_times, total_cycle_time,
                    label_data, label_stats, summary, issue_rows >>
    /\ UNCHANGED cleaner_vars

\* if args.label_analysis: analyze_labels, then its display
LabelAnalysis ==
    /\ pc # << >>
    /\ Head(pc) = "labels"
    /\ IF args.label_analysis
       THEN LET r == analyze_labels(issues, in_progress_statuses, done_statuses)
            IN  IF r.raised
                THEN /\ pc' = << "exit 1" >>
                     /\ UNCHANGED << label_data, label_stats, stdout >>
                ELSE /\ pc' = Tail(pc)
                     /\ label_data' = Some(r.data)
                     /\ label_stats' = Some(SortedByAverage(StatsOf(r.data)))
                     /\ stdout' = stdout \o AnalysisLines("label", r.data)
       ELSE /\ pc' = Tail(pc)
            /\ UNCHANGED << label_data, label_stats, stdout >>
    /\ UNCHANGED << issues, in_progress_statuses, done_statuses, args, first,
                    cycle_infos, valid_cycle_times, total_cycle_time,
                    component_data, component_stats, summary, issue_rows >>
    /\ UNCHANGED cleaner_vars

\* IssueRow showing the marker line in the csv row as well
IssueRow_MarkerEverywhere(output_format, issue, cycle_info) ==
    IF cycle_info.cycle_time_days # None
    THEN [key         |-> issue.key,
          in_progress |-> cycle_info.in_progress_date,
          done        |-> cycle_info.done_date,
          cycle_time  |-> cycle_info.cycle_time_days,
          unable      |-> FALSE]
    ELSE [key         |-> issue.key,
          in_progress |-> None,
          done        |-> None,
          cycle_time  |-> None,
          unable      |-> TRUE]

\* One entry of the per-issue section. The csv row shows each timestamp that
\* is present; the other encodings show the timestamps and the days when the
\* days are present and the "Unable to calculate" line when they are not.
IssueRow(output_format, issue, cycle_info) ==
    IF output_format = "csv"
    THEN [key         |-> issue.key,
          in_progress |-> cycle_info.in_progress_date,
          done        |-> cycle_info.done_date,
          cycle_time  |-> cycle_info.cycle_time_days,
          unable      |-> FALSE]
    ELSE IF cycle_info.cycle_time_days # None
         THEN [key         |-> issue.key,
               in_progress |-> cycle_info.in_progress_date,
               done        |-> cycle_info.done_date,
               cycle_time  |-> cycle_info.cycle_time_days,
               unable      |-> FALSE]
         ELSE [key         |-> issue.key,
               in_progress |-> None,
               done        |-> None,
               cycle_time  |-> None,
               unable      |-> TRUE]

\* issue['fields']['status']['name'] does not raise KeyError
HasStatusName(issue) ==
    /\ "status" \in DOMAIN issue.fields
    /\ "name" \in DOMAIN issue.fields.status

\* The encodings whose per-issue section is printed issue by issue; the
\* others build the section and print it when it is complete
Streaming(output_format) == output_format \notin { "markdown", "html", "csv" }

\* What the per-issue loop does with one issue: raised when a lookup or
\* calculate_cycle_time raised, and the lines that were printed or built. The
\* console and confluence branches have printed the title and the labels of
\* the issue when the lookup of its status name raises.
ListIssue(output_format, issue, cycle_info) ==
    IF ~HasSummary(issue)
    THEN [raised |-> TRUE, lines |-> << >>]
    ELSE IF output_format = "csv"
         THEN IF ~HasStatusName(issue) \/ cycle_info.raised
              THEN [raised |-> TRUE, lines |-> << >>]
              ELSE [raised |-> FALSE,
                    lines |-> << IssueLine("csv_row", issue.key) >>]
         ELSE IF cycle_info.raised
              THEN [raised |-> TRUE, lines |-> << >>]
              ELSE IF ~HasStatusName(issue)
                   THEN [raised |-> TRUE,
                         lines |-> << IssueLine("issue_title", issue.key) >>]
                   ELSE [raised |-> FALSE,
                         lines |-> << IssueLine("issue", issue.key) >>]

\* The loop over the issues of the per-issue section: it ends at the first
\* issue that raises
RECURSIVE ListFrom(_, _, _, _, _)
ListFrom(acc, list, output_format, ip_statuses, d_statuses) ==
    IF list = << >>
    THEN acc
    ELSE LET issue      == Head(list)
             cycle_info == calculate_cycle_time(issue, ip_statuses, d_statuses)
             r          == ListIssue(output_format, issue, cycle_info)
         IN  IF r.raised
             THEN [acc EXCEPT !.raised = TRUE, !.lines = @ \o r.lines]
             ELSE ListFrom([acc EXCEPT
                              !.lines = @ \o r.lines,
                              !.rows = Append(@, IssueRow(output_format, issue,
                                                          cycle_info))],
                           Tail(list), output_format, ip_statuses, d_statuses)

\* What precedes the entries of the per-issue section
Opening(output_format) ==
    CASE output_format \in { "markdown", "html", "confluence" } ->
             << Line("issues_header") >>
      [] output_format = "csv" -> << Line("csv_header") >>
      [] OTHER -> << >>

\* What follows them: the end of the html document, and the empty line that
\* print() adds after the csv text
Closing(output_format) ==
    CASE output_format = "html" -> << Line("html_footer") >>
      [] output_format = "csv" -> << Line("blank") >>
      [] OTHER -> << >>

\* The per-issue section
ListIssues ==
    /\ pc # << >>
    /\ Head(pc) = "issues"
    /\ LET r == ListFrom([raised |-> FALSE, lines |-> << >>, rows |-> << >>],
                         issues, args.output_format, in_progress_statuses,
                         done_statuses)
       IN  IF r.raised
           THEN /\ pc' = << "exit 1" >>
                /\ UNCHANGED issue_rows
                /\ stdout' = IF Streaming(args.output_format)
                             THEN stdout \o Opening(args.output_format) \o r.lines
                             ELSE stdout
           ELSE /\ pc' = Tail(pc)
                /\ issue_rows' = Some(r.rows)
                /\ stdout' = stdout \o Opening(args.output_format) \o r.lines
                                    \o Closing(args.output_format)
    /\ UNCHANGED << issues, in_progress_statuses, done_statuses, args, first,
                    cycle_infos, valid_cycle_times, total_cycle_time,
                    component_data, label_data, component_stats, label_stats,
                    summary >>
    /\ UNCHANGED cleaner_vars

Next ==
    \/ Search
    \/ NoIssues
    \/ Summarize
    \/ ShowSummary
    \/ ComponentAnalysis
    \/ LabelAnalysis
    \/ ListIssues

Spec == Init /\ [][Next]_vars

\* The run of InitCalc up to the end of its per-issue section
NextCalc ==
    \/ Search
    \/ NoIssues
    \/ Summarize
    \/ ListIssues

SpecCalc == InitCalc /\ [][NextCalc]_vars

-----------------------------------------------------------------------------
(* Incomplete input: issue records in which a field is missing *)

\* A dict without the key k
Without(d, k) == [ x \in DOMAIN d \ { k } |-> d[x] ]

\* Transition events that lack their timestamp, their to-status, their items
\* or the field name of their item
NoCreated == [items |-> << StatusItem(Active) >>]

NoToString == [created |-> Created(5, 0), items |-> << [field |-> "status"] >>]

NoItems == [created |-> Created(1, 0)]

NoField == [created |-> Created(5, 0), items |-> << [toString |-> Done] >>]

IncompleteEventPool ==
    { Event(1, 0, Active), Event(5, 0, Done),
      NoCreated, NoToString, NoItems, NoField }

\* An issue with a cycle time of 4 days, whole and with one field missing
FourDays == << Event(1, 0, Active), Event(5, 0, Done) >>

IncompleteIssues ==
    LET whole == Issue(Keys[1], << "bug" >>, << "api" >>, FourDays)
    IN  { Issue(Keys[1], << "bug" >>, << "api" >>, h) :
            h \in SeqsUpTo(IncompleteEventPool, MaxHist) }
        \cup
        { [whole EXCEPT !.fields = Without(@, "summary")],
          [whole EXCEPT !.fields = Without(@, "status")],
          [whole EXCEPT !.fields.status = Without(@, "name")],
          [whole EXCEPT !.fields = Without(@, "labels")],
          [whole EXCEPT !.fields = Without(@, "components")],
          Without(whole, "changelog"),
          [whole EXCEPT !.changelog = Without(@, "histories")] }

\* A run over an incomplete issue, alone or followed by a whole one
InitIncomplete ==
    /\ \/ issues = << >>
       \/ \E a \in IncompleteIssues :
            \/ issues = << a >>
            \/ issues = << a, Issue(Keys[2], << >>, << >>, ExampleHistory) >>
    /\ in_progress_statuses = << Active >>
    /\ done_statuses = << Done >>
    /\ args \in [output_format : Formats,
                 component_analysis : { TRUE }, label_analysis : { TRUE }]
    /\ InitRun

NextIncomplete ==
    \/ Search
    \/ NoIssues
    \/ Summarize
    \/ ShowSummary
    \/ ComponentAnalysis
    \/ LabelAnalysis
    \/ ListIssues

SpecIncomplete == InitIncomplete /\ [][NextIncomplete]_vars

-----------------------------------------------------------------------------
(* The pipeline invoked twice on the same issue list *)

\* Issue lists whose issues all have two labels and two components
TwiceLists(n) ==
    UNION { { [ i \in 1..k |-> Issue(Keys[i], << "bug", "urgent" >>,
                                     << "api", "ui" >>, h[i]) ] :
                h \in [1..k -> HistoryPool] } :
            k \in 0..n }

InitTwice ==
    /\ issues \in TwiceLists(MaxIssues)
    /\ in_progress_statuses = << Active >>
    /\ done_statuses = << Done >>
    /\ args \in [output_format : Formats \cup { Unrecognized },
                 component_analysis : BOOLEAN, label_analysis : BOOLEAN]
    /\ InitRun

\* The run has ended: by the return of main, or by sys.exit
Finished ==
    \/ pc = << >>
    \/ pc = << "exit 1" >>
    \/ pc = << "exit 2" >>

\* The inputs of a run and what it leaves: how it ended, what it printed and
\* the sections it built
Outcome ==
    [issues          |-> issues,
     statuses        |-> << in_progress_statuses, done_statuses >>,
     args            |-> args,
     pc              |-> pc,
     stdout          |-> stdout,
     summary         |-> summary,
     issue_rows      |-> issue_rows,
     component_stats |-> component_stats,
     label_stats     |-> label_stats]

\* main is invoked again with the same arguments, and the search returns the
\* same issue list
RunAgain ==
    /\ Finished
    /\ first = None
    /\ first' = Some(Outcome)
    /\ pc' = << "start" >>
    /\ stdout' = << >>
    /\ UNCHANGED << issues, in_progress_statuses, done_statuses, args,
                    cycle_infos, valid_cycle_times, total_cycle_time,
                    component_data, label_data, component_stats, label_stats,
                    summary, issue_rows >>
    /\ UNCHANGED cleaner_vars

NextTwice ==
    \/ Search
    \/ NoIssues
    \/ Summarize
    \/ ShowSummary
    \/ ComponentAnalysis
    \/ LabelAnalysis
    \/ ListIssues
    \/ RunAgain

SpecTwice == InitTwice /\ [][NextTwice]_vars

-----------------------------------------------------------------------------
(* Issues whose label list or component list repeats a value *)

\* labels and components as given in the raw input, with and without a
\* repeated value
RepeatedPool ==
    { [labels |-> << "bug" >>, components |-> << "api" >>],
      [labels |-> << "bug", "bug" >>, components |-> << "api", "api" >>],
      [labels |-> << "bug", "urgent", "bug" >>, components |-> << >>] }

RepeatedLists(n) ==
    UNION { { [ i \in 1..k |-> Issue(Keys[i], d[i].labels, d[i].components, h[i]) ] :
                d \in [1..k -> RepeatedPool], h \in [1..k -> { << >>, FourDays }] } :
            k \in 0..n }

\* A run with both analyses over such issues
InitRepeated ==
    /\ issues \in RepeatedLists(MaxIssues)
    /\ in_progress_statuses = << Active >>
    /\ done_statuses = << Done >>
    /\ args \in [output_format : { "console", "markdown" },
                 component_analysis : { TRUE }, label_analysis : { TRUE }]
    /\ InitRun

NextRepeated ==
    \/ Search
    \/ NoIssues
    \/ Summarize
    \/ ShowSummary
    \/ ComponentAnalysis
    \/ LabelAnalysis
    \/ ListIssues

SpecRepeated == InitRepeated /\ [][NextRepeated]_vars

-----------------------------------------------------------------------------
(* jira_column_cleaner.py: strings and slices *)

DigitChars == { "0", "1", "2", "3", "4", "5", "6", "7", "8", "9" }

\* str.isdigit(): not empty, and every character a digit
isdigit(s) == s # << >> /\ \A i \in 1..Len(s) : s[i] \in DigitChars

\* s.split(sep), for a separator of one character
RECURSIVE split(_, _)
split(s, sep) ==
    IF \A i \in 1..Len(s) : s[i] # sep
    THEN << s >>
    ELSE LET i == CHOOSE k \in 1..Len(s) :
                     /\ s[k] = sep
                     /\ \A j \in 1..(k - 1) : s[j] # sep
         IN  << SubSeq(s, 1, i - 1) >> \o split(SubSeq(s, i + 1, Len(s)), sep)

\* The list of the stripped pieces of a comma-separated string that are not
\* empty
parse_statuses(statuses_string) ==
    IF strip(statuses_string) = << >>
    THEN << >>
    ELSE LET pieces   == split(statuses_string, ",")
             statuses == [ i \in 1..Len(pieces) |-> strip(pieces[i]) ]
         IN  SelectSeq(statuses, LAMBDA status : status # << >>)

\* The position a slice bound n denotes in a list of the given length: a
\* negative bound counts from the end, and a bound outside the list is
\* clipped
SliceIndex(n, length) ==
    IF n < 0
    THEN IF length + n < 0 THEN 0 ELSE length + n
    ELSE IF n > length THEN length ELSE n

\* s[n:]
SliceFrom(s, n) == SubSeq(s, SliceIndex(n, Len(s)) + 1, Len(s))

\* s[:n]
SliceTo(s, n) == SubSeq(s, 1, SliceIndex(n, Len(s)))

\* d[k] = v on a dict
Put(d, k, v) == [ x \in DOMAIN d \cup { k } |-> IF x = k THEN v ELSE d[x] ]

-----------------------------------------------------------------------------
(* jira_column_cleaner.py: JiraClient.get_status_info and
   clean_column_statuses *)

\* The lookup of a status on a server that answers the request for status_id
\* with srv[status_id]: the status for a response of 200, a placeholder named
\* Status_<id> for another response; the request raises when the connection
\* fails.
get_status_info(srv, status_id) ==
    IF srv[status_id].response = "error"
    THEN [raised |-> TRUE, info |-> None]
    ELSE IF srv[status_id].response = "200"
         THEN [raised |-> FALSE,
               info |-> [id |-> status_id, name |-> srv[status_id].name]]
         ELSE [raised |-> FALSE,
               info |-> [id |-> status_id,
                         name |-> << "S", "t", "a", "t", "u", "s", "_" >>
                                  \o status_id]]

\* The entry of removed_status_info for a removed status:
\* "<name> (ID: <id>)", or "ID_<id>" without a client or when the lookup raises
RemovedInfo(jira_client, status_id) ==
    LET by_id == << "I", "D", "_" >> \o status_id
    IN  IF jira_client # None
        THEN LET r == get_status_info(Val(jira_client), status_id)
             IN  IF r.raised
                 THEN by_id
                 ELSE r.info.name \o << " ", "(", "I", "D", ":", " " >>
                      \o status_id \o << ")" >>
        ELSE by_id

\* RemoveFirst refusing only a count greater than the number of statuses
RemoveFirst_UpToAll(column, jira_client, remove_count) ==
    LET current_statuses == Get(column, "statuses", << >>)
    IN  IF remove_count > Len(current_statuses)
        THEN [raised |-> TRUE, new_column |-> None, removed |-> << >>,
              column |-> column]
        ELSE LET cleaned_statuses == SliceFrom(current_statuses, remove_count)
                 removed_statuses == SliceTo(current_statuses, remove_count)
             IN  [raised     |-> FALSE,
                  new_column |-> Some(Put(column, "statuses", cleaned_statuses)),
                  removed    |-> [ i \in 1..Len(removed_statuses) |->
                                     RemovedInfo(jira_client,
                                                 removed_statuses[i].id) ],
                  column     |-> column]

\* clean_column_statuses with a remove_count: the first remove_count statuses
\* are removed
RemoveFirst(column, jira_client, remove_count) ==
    LET current_statuses == Get(column, "statuses", << >>)
    IN  IF remove_count >= Len(current_statuses)
        THEN [raised |-> TRUE, new_column |-> None, removed |-> << >>,
              column |-> column]
        ELSE LET cleaned_statuses == SliceFrom(current_statuses, remove_count)
                 removed_statuses == SliceTo(current_statuses, remove_count)
             IN  [raised     |-> FALSE,
                  new_column |-> Some(Put(column, "statuses", cleaned_statuses)),
                  removed    |-> [ i \in 1..Len(removed_statuses) |->
                                     RemovedInfo(jira_client,
                                                 removed_statuses[i].id) ],
                  column     |-> column]

\* should_keep of one status: by its id, else by the lower-cased name the
\* lookup returns; a lookup that raises keeps nothing
ShouldKeep(status, keep_ids, keep_names_lower, jira_client) ==
    IF InList(status.id, keep_ids)
    THEN TRUE
    ELSE IF keep_names_lower # << >> /\ jira_client # None
         THEN LET r == get_status_info(Val(jira_client), status.id)
              IN  IF r.raised
                  THEN FALSE
                  ELSE InList(lower(r.info.name), keep_names_lower)
         ELSE FALSE

\* clean_column_statuses without a remove_count: the statuses named by the
\* keep identifiers stay
KeepOnly(column, keep_identifiers, jira_client) ==
    LET current_statuses == Get(column, "statuses", << >>)
        keep_ids         == SelectSeq(keep_identifiers, isdigit)
        names            == SelectSeq(keep_identifiers,
                                      LAMBDA identifier : ~isdigit(identifier))
        keep_names_lower == [ i \in 1..Len(names) |-> lower(names[i]) ]
    IN  IF keep_names_lower # << >> /\ jira_client = None
        THEN [raised |-> TRUE, new_column |-> None, removed |-> << >>,
              column |-> column]
        ELSE LET cleaned_statuses ==
                     SelectSeq(current_statuses,
                               LAMBDA status :
                                   ShouldKeep(status, keep_ids,
                                              keep_names_lower, jira_client))
                 removed_statuses ==
                     SelectSeq(current_statuses,
                               LAMBDA status :
                                   ~ShouldKeep(status, keep_ids,
                                               keep_names_lower, jira_client))
             IN  [raised     |-> FALSE,
                  new_column |-> Some(Put(column, "statuses", cleaned_statuses)),
                  removed    |-> [ i \in 1..Len(removed_statuses) |->
                                     RemovedInfo(jira_client,
                                                 removed_statuses[i].id) ],
                  column     |-> column]

\* The returned pair (new_column, removed_status_info); raised is TRUE when
\* the call raised instead, and column is the argument as the call leaves it:
\* the function works on column.copy() with a new list of statuses.
\* remove_count is None or a number.
clean_column_statuses(column, keep_identifiers, jira_client, remove_count) ==
    IF remove_count # None
    THEN RemoveFirst(column, jira_client, Val(remove_count))
    ELSE KeepOnly(column, keep_identifiers, jira_client)

\* The position of the first column of that name, compared in lower case;
\* 0 when there is none
find_column_by_name(configuration, column_name) ==
    LET columns == Get(Get(configuration, "columnConfig", << >>), "columns", << >>)
        found   == { i \in 1..Len(columns) :
                       lower(Get(columns[i], "name", << >>)) = lower(column_name) }
    IN  IF found = { }
        THEN 0
        ELSE CHOOSE i \in found : \A j \in found : i <= j

-----------------------------------------------------------------------------
(* jira_column_cleaner.py: JiraClient.list_boards *)

\* maxResults of each request
max_results == 50

\* The page the server returns for a request at start_at: the boards are
\* numbered from 1, and the server returns at most its own page size
Page(srv, at, requested) ==
    LET size == IF requested < srv.page_size THEN requested ELSE srv.page_size
        last == IF at + size < srv.total THEN at + size ELSE srv.total
    IN  [ i \in 1..(IF last > at THEN last - at ELSE 0) |-> at + i ]

\* One turn of the loop of list_boards
FetchPage ==
    /\ cpc = << "list_boards" >>
    /\ LET boards == Page(board_server, start_at, max_results)
           total  == board_server.total
       IN  /\ all_boards' = all_boards \o boards
           /\ IF start_at + Len(boards) >= total
              THEN /\ cpc' = << >>
                   /\ UNCHANGED start_at
              ELSE /\ start_at' = start_at + max_results
                   /\ UNCHANGED cpc
    /\ UNCHANGED << c_args, board, config, server, keep_statuses, announced,
                    cleaned, answer, puts, board_server >>
    /\ UNCHANGED client_vars

-----------------------------------------------------------------------------
(* jira_column_cleaner.py: main, from the test of the cleaning arguments *)

\* if x: of an optional number, and of an optional string
TruthyCount(remove_count) == remove_count # None /\ Val(remove_count) # 0

TruthyString(string) == string # None /\ Val(string) # << >>

\* The mode is checked and announced and the target column is looked for
Validate ==
    /\ cpc = << "validate" >>
    /\ IF TruthyCount(c_args.remove_count)
       THEN IF TruthyString(c_args.keep_statuses)
            THEN /\ cpc' = << "exit 1" >>
                 /\ UNCHANGED << keep_statuses, announced >>
            ELSE /\ keep_statuses' = << >>
                 /\ announced' = Some("remove")
                 /\ cpc' = IF find_column_by_name(config, c_args.column_name) = 0
                           THEN << "exit 1" >>
                           ELSE << "clean" >>
       ELSE IF ~TruthyString(c_args.keep_statuses)
            THEN /\ cpc' = << "exit 1" >>
                 /\ UNCHANGED << keep_statuses, announced >>
            ELSE LET parsed == parse_statuses(Val(c_args.keep_statuses))
                 IN  IF parsed = << >>
                     THEN /\ cpc' = << "exit 1" >>
                          /\ UNCHANGED << keep_statuses, announced >>
                     ELSE /\ keep_statuses' = parsed
                          /\ announced' = Some("keep")
                          /\ cpc' = IF find_column_by_name(config,
                                                           c_args.column_name) = 0
                                    THEN << "exit 1" >>
                                    ELSE << "clean" >>
    /\ UNCHANGED << c_args, board, config, server, cleaned, answer, puts,
                    board_server, start_at, all_boards >>
    /\ UNCHANGED client_vars

\* The configuration with the first column of that name replaced
ReplaceColumn(configuration, column_name, new_column) ==
    LET i == find_column_by_name(configuration, column_name)
    IN  IF i = 0
        THEN configuration
        ELSE [configuration EXCEPT !.columnConfig.columns[i] = new_column]

\* The column is cleaned; main returns when nothing is to be removed and
\* after the report of a dry run. target_column is the column inside config.
Clean ==
    /\ cpc = << "clean" >>
    /\ LET columns       == config.columnConfig.columns
           target_column == columns[find_column_by_name(config, c_args.column_name)]
           r == clean_column_statuses(target_column, keep_statuses,
                                      Some(server), c_args.remove_count)
       IN  /\ cleaned' = Some(r)
           /\ config' = ReplaceColumn(config, c_args.column_name, r.column)
           /\ cpc' = IF r.raised
                     THEN << "exit 1" >>
                     ELSE IF r.removed = << >>
                          THEN << >>
                          ELSE IF c_args.dry_run
                               THEN << >>
                               ELSE << "confirm" >>
    /\ UNCHANGED << c_args, board, server, keep_statuses, announced,
                    answer, puts, board_server, start_at, all_boards >>
    /\ UNCHANGED client_vars

\* What the user may type at the prompt
Answers ==
    { << "y" >>, << "Y" >>, << " ", "y", " " >>, << "n" >>, << >>,
      << "y", "e", "s" >> }

\* Confirm taking every answer for a yes
Confirm_AnyAnswer ==
    /\ cpc = << "confirm" >>
    /\ \E typed \in Answers :
         /\ answer' = Some(typed)
         /\ config' = ReplaceColumn(config, c_args.column_name,
                                    Val(Val(cleaned).new_column))
         /\ cpc' = << "update" >>
    /\ UNCHANGED << c_args, board, server, keep_statuses, announced, cleaned,
                    puts, board_server, start_at, all_boards >>
    /\ UNCHANGED client_vars

\* The prompt "Continue? (y/N)": on any answer but y main returns; on y the
\* cleaned column is put into config
Confirm ==
    /\ cpc = << "confirm" >>
    /\ \E typed \in Answers :
         /\ answer' = Some(typed)
         /\ IF lower(strip(typed)) # << "y" >>
            THEN /\ cpc' = << >>
                 /\ UNCHANGED config
            ELSE /\ config' = ReplaceColumn(config, c_args.column_name,
                                            Val(Val(cleaned).new_column))
                 /\ cpc' = << "update" >>
    /\ UNCHANGED << c_args, board, server, keep_statuses, announced, cleaned,
                    puts, board_server, start_at, all_boards >>
    /\ UNCHANGED client_vars

\* update_board_configuration: the PUT of config, which the server accepts or
\* refuses
Update ==
    /\ cpc = << "update" >>
    /\ puts' = Append(puts, config)
    /\ \E status_code \in { 200, 500 } :
         IF status_code = 200
         THEN /\ board' = config
              /\ cpc' = << >>
         ELSE /\ cpc' = << "exit 1" >>
              /\ UNCHANGED board
    /\ UNCHANGED << c_args, config, server, keep_statuses, announced, cleaned,
                    answer, board_server, start_at, all_boards >>
    /\ UNCHANGED client_vars

\* jira_client.py is not running
ClientIdle ==
    /\ issues = << >>
    /\ in_progress_statuses = << >>
    /\ done_statuses = << >>
    /\ args = None
    /\ pc = << >>
    /\ stdout = << >>
    /\ first = None
    /\ cycle_infos = << >>
    /\ valid_cycle_times = << >>
    /\ total_cycle_time = 0
    /\ component_data = None
    /\ label_data = None
    /\ component_stats = None
    /\ label_stats = None
    /\ summary = None
    /\ issue_rows = None

\* The most statuses a column holds
MaxStatuses == 3

\* The id of the k-th status, and the name the server has for it
StatusId(k) == << << "1", "2", "3", "4", "5", "6", "7", "8", "9" >>[k] >>

StatusName(k) == << Active, Done, Open >>[((k - 1) % 3) + 1]

StatusIds == { StatusId(k) : k \in 1..(MaxStatuses + 1) }

\* The servers: every lookup answered with 200, or the lookup of one status
\* answered with 404 or failing
Servers ==
    LET good == [ id \in StatusIds |->
                    [response |-> "200",
                     name |-> StatusName(CHOOSE k \in 1..(MaxStatuses + 1) :
                                             StatusId(k) = id)] ]
    IN  { good }
        \cup { [good EXCEPT ![id].response = resp] :
                 id \in StatusIds, resp \in { "404", "error" } }

\* The board: a column Open, and a column Active with the first n statuses
Board(n) ==
    [name |-> "Team board",
     columnConfig |->
        [columns |-> << [name |-> Open,
                         statuses |-> << [id |-> StatusId(MaxStatuses + 1)] >>],
                        [name |-> Active,
                         statuses |-> [ k \in 1..n |-> [id |-> StatusId(k)] ]] >>]]

\* keep_statuses as typed: "", " , ", "1", "ACTIVE", "2, done" and "Done,Open"
KeepArguments ==
    { << >>,
      << " ", ",", " " >>,
      << "1" >>,
      ActiveUpper,
      << "2", ",", " " >> \o DoneLower,
      Done \o << "," >> \o Open }

\* A run of the cleaner on the column ACTIVE or on a column that is not there
InitCleaner ==
    /\ \E n \in 0..MaxStatuses :
         /\ board = Board(n)
         /\ config = Board(n)
    /\ server \in Servers
    /\ c_args \in [remove_count  : { None } \cup { Some(n) : n \in (-1)..(MaxStatuses + 1) },
                   keep_statuses : { None } \cup { Some(k) : k \in KeepArguments },
                   dry_run       : BOOLEAN,
                   column_name   : { ActiveUpper, Done }]
    /\ cpc = << "validate" >>
    /\ keep_statuses = << >>
    /\ announced = None
    /\ cleaned = None
    /\ answer = None
    /\ puts = << >>
    /\ board_server = None
    /\ start_at = 0
    /\ all_boards = << >>
    /\ ClientIdle

NextCleaner ==
    \/ Validate
    \/ Clean
    \/ Confirm
    \/ Update

SpecCleaner == InitCleaner /\ [][NextCleaner]_vars

\* The most boards on the server
MaxBoards == 120

\* The page sizes of the servers: the size the client asks for, and smaller
PageSizes == { 20, 25, 50 }

\* A call of list_boards
InitBoards ==
    /\ board_server \in [total : 0..MaxBoards, page_size : PageSizes]
    /\ cpc = << "list_boards" >>
    /\ start_at = 0
    /\ all_boards = << >>
    /\ c_args = None
    /\ board = None
    /\ config = None
    /\ server = None
    /\ keep_statuses = << >>
    /\ announced = None
    /\ cleaned = None
    /\ answer = None
    /\ puts = << >>
    /\ ClientIdle

NextBoards ==
    \/ FetchPage

SpecBoards == InitBoards /\ [][NextBoards]_vars

-----------------------------------------------------------------------------
(* What the claims speak of *)

\* The histories of issue i
HistoriesOf(i) == issues[i].changelog.histories

\* The timestamp of event e
TimeOf(e) == strptime19(e.created)

\* The normalized names of a configured status list, as a set
StatusSet(statuses) == { Normalize(statuses[k]) : k \in 1..Len(statuses) }

\* Event e holds a status item whose normalized to-status is in the set
Enters(e, set) ==
    \E j \in 1..Len(e.items) :
        /\ e.items[j].field = "status"
        /\ Normalize(e.items[j].toString) \in set

\* The positions of the events of a history that enter the set
Entering(h, set) == { n \in 1..Len(h) : Enters(h[n], set) }

\* The timestamp of the last event of the history that enters the set
LastEntering(h, set) ==
    LET E == Entering(h, set)
    IN  IF E = { }
        THEN None
        ELSE Some(TimeOf(h[CHOOSE n \in E : \A m \in E : m <= n]))

Calculated == cycle_infos # << >>

-----------------------------------------------------------------------------
(* C1: for every history and every in-progress status set, in_progress_date
   is the timestamp of the last event, in list order, that holds a status
   item whose lower-cased and trimmed to-status is in the in-progress set; it
   is absent when no event matches; and an issue with an empty history gets
   in_progress_date, done_date and cycle_time_days all absent. *)
C1_LastInProgressWins ==
    \A i \in 1..Len(cycle_infos) :
        /\ cycle_infos[i].in_progress_date =
               LastEntering(HistoriesOf(i), StatusSet(in_progress_statuses))
        /\ HistoriesOf(i) = << >> =>
               /\ cycle_infos[i].in_progress_date = None
               /\ cycle_infos[i].done_date = None
               /\ cycle_infos[i].cycle_time_days = None

\* Two events with different timestamps enter an in-progress status, and the
\* second one's timestamp was returned
C1_Witness ==
    /\ Calculated
    /\ \E a, b \in Entering(HistoriesOf(1), StatusSet(in_progress_statuses)) :
         /\ a < b
         /\ TimeOf(HistoriesOf(1)[a]) # TimeOf(HistoriesOf(1)[b])
         /\ \A m \in Entering(HistoriesOf(1), StatusSet(in_progress_statuses)) :
                m <= b
         /\ cycle_infos[1].in_progress_date = Some(TimeOf(HistoriesOf(1)[b]))

-----------------------------------------------------------------------------
(* C2, as claimed: done_date is the timestamp of the last event whose
   to-status is in the done set, whatever the in-progress set holds, so that
   an event whose to-status is in both sets updates both timestamps. *)
C2_Claimed_DoneIndependent ==
    \A i \in 1..Len(cycle_infos) :
        cycle_infos[i].done_date =
            LastEntering(HistoriesOf(i), StatusSet(done_statuses))

(* C2, amended: the in-progress test comes first and the done test is its
   "elif". done_date is the timestamp of the last event holding a status item
   whose to-status is in the done set and not in the in-progress set; a
   status item whose to-status is in both sets updates in_progress_date
   only. *)
C2_DoneUnlessInProgress ==
    \A i \in 1..Len(cycle_infos) :
        cycle_infos[i].done_date =
            LastEntering(HistoriesOf(i),
                         StatusSet(done_statuses) \ StatusSet(in_progress_statuses))

\* A status of both sets was entered: in_progress_date is that event's
\* timestamp and done_date is absent
C2_Witness ==
    /\ Calculated
    /\ StatusSet(done_statuses) \cap StatusSet(in_progress_statuses) # { }
    /\ \E n \in 1..Len(HistoriesOf(1)) :
         /\ Enters(HistoriesOf(1)[n],
                   StatusSet(done_statuses) \cap StatusSet(in_progress_statuses))
         /\ cycle_infos[1].in_progress_date = Some(TimeOf(HistoriesOf(1)[n]))
    /\ cycle_infos[1].done_date = None

-----------------------------------------------------------------------------
\* The quotient a / b rounded toward zero, b > 0
TruncDiv(a, b) == IF a >= 0 THEN a \div b ELSE -((-a) \div b)

\* Both timestamps of issue i are present
BothPresent(i) ==
    /\ cycle_infos[i].in_progress_date # None
    /\ cycle_infos[i].done_date # None

\* done_date - in_progress_date of issue i, in hours
Elapsed(i) == Val(cycle_infos[i].done_date) - Val(cycle_infos[i].in_progress_date)

(* C3, as claimed: whenever both timestamps are present, cycle_time_days is
   done_at - in_progress_at in whole days with the fractional day truncated
   toward zero, for negative differences too (minus 4 days and 12 hours
   gives -4). *)
C3_Claimed_TruncatedTowardZero ==
    \A i \in 1..Len(cycle_infos) :
        BothPresent(i) =>
            cycle_infos[i].cycle_time_days = Some(TruncDiv(Elapsed(i), 24))

(* C3, amended: whenever both timestamps are present, cycle_time_days is
   done_at - in_progress_at in whole days rounded down (toward minus
   infinity): the fractional day is dropped for a difference that is not
   negative (8 days and 8 hours gives 8) and a negative difference with a
   fractional day goes to the next lower integer (minus 4 days and 12 hours
   gives -5). *)
C3_RoundedDown ==
    \A i \in 1..Len(cycle_infos) :
        BothPresent(i) =>
            /\ cycle_infos[i].cycle_time_days # None
            /\ LET days == Val(cycle_infos[i].cycle_time_days)
               IN  /\ days * 24 <= Elapsed(i)
                   /\ Elapsed(i) < (days + 1) * 24
                   /\ Elapsed(i) >= 0 => days = TruncDiv(Elapsed(i), 24)
                   /\ Elapsed(i) = 8 * 24 + 8 => days = 8
                   /\ Elapsed(i) = -(4 * 24 + 12) => days = -5

\* Done 4 days and 12 hours before In Progress: -5
C3_Witness ==
    /\ Calculated
    /\ BothPresent(1)
    /\ Elapsed(1) = -(4 * 24 + 12)
    /\ cycle_infos[1].cycle_time_days = Some(-5)

-----------------------------------------------------------------------------
(* C4: cycle_time_days is present if and only if in_progress_date and
   done_date are both present; two present timestamps give an integer, 0
   included. *)
C4_DaysIffBothTimestamps ==
    \A i \in 1..Len(cycle_infos) :
        /\ cycle_infos[i].cycle_time_days # None <=> BothPresent(i)
        /\ cycle_infos[i].cycle_time_days # None =>
               Val(cycle_infos[i].cycle_time_days) \in Int

\* Both timestamps present and less than a day apart: the days are 0, present
C4_Witness ==
    /\ Calculated
    /\ BothPresent(1)
    /\ Elapsed(1) > 0
    /\ cycle_infos[1].cycle_time_days = Some(0)

-----------------------------------------------------------------------------
\* The tickets of issue i in an analysis result
TicketsOf(data, i) ==
    { t \in UNION { Range(data[g].tickets) : g \in 1..Len(data) } :
        t.key = issues[i].key }

\* The values of cycle_infos that are present, as a set of positions
WithCycleTime == { i \in 1..Len(cycle_infos) : cycle_infos[i].cycle_time_days # None }

DaysOf(i) == Val(cycle_infos[i].cycle_time_days)

\* The sum of the days of the issues at the positions S
RECURSIVE SumDays(_)
SumDays(S) ==
    IF S = { }
    THEN 0
    ELSE LET x == CHOOSE y \in S : TRUE IN DaysOf(x) + SumDays(S \ { x })

(* C5: when the done timestamp is earlier than the in-progress timestamp the
   calculator does not raise and does not clamp: the negative day count is
   returned (Done 2024-01-01 and In Progress 2024-01-05 gives -4), and that
   negative value is what the summary, the aggregation statistics and the
   per-issue output use. *)
C5_NegativePassedThrough ==
    \A i \in 1..Len(cycle_infos) :
        (BothPresent(i) /\ Elapsed(i) < 0) =>
            /\ ~cycle_infos[i].raised
            /\ cycle_infos[i].cycle_time_days # None
            /\ DaysOf(i) < 0
            /\ Elapsed(i) = -(4 * 24) => DaysOf(i) = -4
            /\ \E n \in 1..Len(valid_cycle_times) : valid_cycle_times[n] = DaysOf(i)
            /\ total_cycle_time = SumDays(WithCycleTime)
            /\ summary # None =>
                   /\ ~Val(summary).no_data
                   /\ Val(summary).total = SumDays(WithCycleTime)
                   /\ Val(summary).min <= DaysOf(i)
                   /\ Val(summary).min < 0
            /\ component_data # None =>
                   /\ TicketsOf(Val(component_data), i) # { }
                   /\ \A t \in TicketsOf(Val(component_data), i) :
                          t.cycle_time = DaysOf(i)
                   /\ \A g \in 1..Len(Val(component_stats)) :
                          (\E t \in Range(Val(component_stats)[g].tickets) :
                               t.key = issues[i].key)
                          => Val(component_stats)[g].min <= DaysOf(i)
            /\ label_data # None =>
                   /\ TicketsOf(Val(label_data), i) # { }
                   /\ \A t \in TicketsOf(Val(label_data), i) :
                          t.cycle_time = DaysOf(i)
                   /\ \A g \in 1..Len(Val(label_stats)) :
                          (\E t \in Range(Val(label_stats)[g].tickets) :
                               t.key = issues[i].key)
                          => Val(label_stats)[g].min <= DaysOf(i)
            /\ issue_rows # None =>
                   /\ Val(issue_rows)[i].cycle_time = Some(DaysOf(i))
                   /\ ~Val(issue_rows)[i].unable

\* A finished run with both analyses over an issue done 4 days before it was
\* in progress: -4 in the summary, in both analyses and in the listing
C5_Witness ==
    /\ pc = << >>
    /\ Calculated
    /\ \E i \in 1..Len(cycle_infos) :
         /\ BothPresent(i)
         /\ Elapsed(i) = -(4 * 24)
         /\ cycle_infos[i].cycle_time_days = Some(-4)
         /\ summary # None /\ Val(summary).min = -4
         /\ component_data # None
         /\ \E t \in TicketsOf(Val(component_data), i) : t.cycle_time = -4
         /\ label_data # None
         /\ \E t \in TicketsOf(Val(label_data), i) : t.cycle_time = -4
         /\ issue_rows # None /\ Val(issue_rows)[i].cycle_time = Some(-4)

-----------------------------------------------------------------------------
(* C6, as claimed: the calculator returns all three fields absent if either
   timestamp is absent, so an issue whose history matches an in-progress
   status but no done status (or the reverse) gets in_progress_date and
   done_date absent too, and no encoding shows a timestamp for an issue
   without a cycle time. *)
C6_Claimed_AllAbsent ==
    \A i \in 1..Len(cycle_infos) :
        cycle_infos[i].cycle_time_days = None =>
            /\ cycle_infos[i].in_progress_date = None
            /\ cycle_infos[i].done_date = None

(* C6, amended: if either timestamp is absent the calculator returns
   cycle_time_days absent and returns the timestamp that was found as it is:
   an issue whose history enters an in-progress status gets in_progress_date
   present also when done_date is absent, and the reverse. The csv row shows
   each timestamp that is present, also for an issue without a cycle time;
   the other encodings show no timestamp for such an issue. *)
C6_FoundTimestampReturned ==
    \A i \in 1..Len(cycle_infos) :
        /\ ~BothPresent(i) => cycle_infos[i].cycle_time_days = None
        /\ Entering(HistoriesOf(i), StatusSet(in_progress_statuses)) # { }
               => cycle_infos[i].in_progress_date # None
        /\ Entering(HistoriesOf(i),
                    StatusSet(done_statuses) \ StatusSet(in_progress_statuses)) # { }
               => cycle_infos[i].done_date # None
        /\ issue_rows # None =>
               IF args.output_format = "csv"
               THEN /\ Val(issue_rows)[i].in_progress = cycle_infos[i].in_progress_date
                    /\ Val(issue_rows)[i].done = cycle_infos[i].done_date
                    /\ Val(issue_rows)[i].cycle_time = cycle_infos[i].cycle_time_days
               ELSE cycle_infos[i].cycle_time_days = None =>
                        /\ Val(issue_rows)[i].in_progress = None
                        /\ Val(issue_rows)[i].done = None
                        /\ Val(issue_rows)[i].unable

\* A csv row with an in-progress timestamp and no done timestamp and no days
C6_Witness ==
    /\ Calculated
    /\ args.output_format = "csv"
    /\ issue_rows # None
    /\ cycle_infos[1].in_progress_date # None
    /\ cycle_infos[1].done_date = None
    /\ cycle_infos[1].cycle_time_days = None
    /\ Val(issue_rows)[1].in_progress = cycle_infos[1].in_progress_date
    /\ Val(issue_rows)[1].cycle_time = None

-----------------------------------------------------------------------------
\* The positions of the events of issue i that enter an in-progress status
InProgressEvents(i) == Entering(HistoriesOf(i), StatusSet(in_progress_statuses))

\* The first and the last position of a set of positions
First(E) == CHOOSE n \in E : \A m \in E : n <= m

Last(E) == CHOOSE n \in E : \A m \in E : m <= n

\* Exactly two events, with different timestamps
TwoDistinct(h, E) ==
    /\ Cardinality(E) = 2
    /\ TimeOf(h[First(E)]) # TimeOf(h[Last(E)])

Later(x, y) == IF x >= y THEN x ELSE y

(* C7, as claimed: given two in-progress-matching events with distinct
   timestamps, in_progress_at is the chronologically later of the two
   timestamps, whichever of the two events comes first in the list. *)
C7_Claimed_ChronologicallyLater ==
    \A i \in 1..Len(cycle_infos) :
        LET h == HistoriesOf(i)
            E == InProgressEvents(i)
        IN  TwoDistinct(h, E) =>
                cycle_infos[i].in_progress_date =
                    Some(Later(TimeOf(h[First(E)]), TimeOf(h[Last(E)])))

(* C7, amended: given two in-progress-matching events with distinct
   timestamps, in_progress_at is the timestamp of the one that comes later
   in the list; it is the chronologically later of the two timestamps
   exactly when the list holds the two events in chronological order. *)
C7_LaterInList ==
    \A i \in 1..Len(cycle_infos) :
        LET h == HistoriesOf(i)
            E == InProgressEvents(i)
        IN  TwoDistinct(h, E) =>
                /\ cycle_infos[i].in_progress_date = Some(TimeOf(h[Last(E)]))
                /\ cycle_infos[i].in_progress_date =
                       Some(Later(TimeOf(h[First(E)]), TimeOf(h[Last(E)])))
                   <=> TimeOf(h[First(E)]) < TimeOf(h[Last(E)])

\* The earlier of the two in-progress transitions comes second in the list,
\* and its timestamp was returned
C7_Witness ==
    /\ Calculated
    /\ LET h == HistoriesOf(1)
           E == InProgressEvents(1)
       IN  /\ TwoDistinct(h, E)
           /\ TimeOf(h[Last(E)]) < TimeOf(h[First(E)])
           /\ cycle_infos[1].in_progress_date = Some(TimeOf(h[Last(E)]))

-----------------------------------------------------------------------------
(* C8: an issue whose cycle_time_days is absent appears in no group returned
   by analyze_components and in no group returned by analyze_labels. *)
C8_AbsentInNoGroup ==
    \A i \in 1..Len(cycle_infos) :
        cycle_infos[i].cycle_time_days = None =>
            /\ component_data # None => TicketsOf(Val(component_data), i) = { }
            /\ label_data # None => TicketsOf(Val(label_data), i) = { }

\* Both analyses ran and returned groups, over a list that holds an issue
\* with components and labels and no cycle time
C8_Witness ==
    /\ component_data # None /\ Val(component_data) # << >>
    /\ label_data # None /\ Val(label_data) # << >>
    /\ \E i \in 1..Len(cycle_infos) :
         /\ cycle_infos[i].cycle_time_days = None
         /\ issues[i].fields.labels # << >>
         /\ issues[i].fields.components # << >>
         /\ TicketsOf(Val(label_data), i) = { }

-----------------------------------------------------------------------------
\* The component names of issue i, or the sentinel when it has none
ComponentValues(i) ==
    IF issues[i].fields.components = << >>
    THEN { "No components" }
    ELSE { issues[i].fields.components[k].name :
             k \in 1..Len(issues[i].fields.components) }

\* The labels of issue i, or the sentinel when it has none
LabelValues(i) ==
    IF issues[i].fields.labels = << >>
    THEN { "No labels" }
    ELSE Range(issues[i].fields.labels)

\* Issue i, with its result, is in the group of that name
Contributes(data, i, name) ==
    \E g \in 1..Len(data) :
        /\ data[g].name = name
        /\ \E t \in Range(data[g].tickets) :
             /\ t.key = issues[i].key
             /\ t.cycle_time = DaysOf(i)
             /\ t.cycle_info = cycle_infos[i]

\* The names of the groups that hold a ticket of issue i
GroupsOf(data, i) ==
    { data[g].name : g \in { g \in 1..Len(data) :
                               \E t \in Range(data[g].tickets) :
                                   t.key = issues[i].key } }

(* C9: an issue with a present cycle time contributes its result to every
   group named by one of its dimension values and to no other group; with an
   empty component list (label list) it contributes to exactly the one group
   named "No components" ("No labels"). *)
C9_FanOut ==
    \A i \in WithCycleTime :
        /\ component_data # None =>
               /\ \A name \in ComponentValues(i) :
                      Contributes(Val(component_data), i, name)
               /\ GroupsOf(Val(component_data), i) = ComponentValues(i)
               /\ issues[i].fields.components = << >> =>
                      GroupsOf(Val(component_data), i) = { "No components" }
        /\ label_data # None =>
               /\ \A name \in LabelValues(i) :
                      Contributes(Val(label_data), i, name)
               /\ GroupsOf(Val(label_data), i) = LabelValues(i)
               /\ issues[i].fields.labels = << >> =>
                      GroupsOf(Val(label_data), i) = { "No labels" }

\* An issue with the labels bug and urgent is in both groups and an issue
\* without labels is in "No labels"
C9_Witness ==
    /\ label_data # None
    /\ component_data # None
    /\ \E i, j \in WithCycleTime :
         /\ issues[i].fields.labels = << "bug", "urgent" >>
         /\ GroupsOf(Val(label_data), i) = { "bug", "urgent" }
         /\ issues[j].fields.labels = << >>
         /\ GroupsOf(Val(label_data), j) = { "No labels" }
         /\ GroupsOf(Val(component_data), j) = { "No components" }

-----------------------------------------------------------------------------
\* The occurrences of a name among the names of the issues that have a cycle
\* time: the issue's position and the position of the name in its list
Occurrences(names, name) ==
    UNION { { << i, k >> : k \in { k \in 1..Len(names[i]) : names[i][k] = name } } :
            i \in WithCycleTime }

\* The sum of the days of the issues of a set of occurrences
RECURSIVE SumOccurrences(_)
SumOccurrences(S) ==
    IF S = { }
    THEN 0
    ELSE LET o == CHOOSE x \in S : TRUE
         IN  DaysOf(o[1]) + SumOccurrences(S \ { o })

\* The statistics of one group are those of its entries, which are the
\* occurrences of its name
StatsRight(e, names) ==
    LET values == { e.tickets[k].cycle_time : k \in 1..Len(e.tickets) }
    IN  /\ e.tickets # << >>
        /\ e.count = Len(e.tickets)
        /\ e.count = Cardinality(Occurrences(names, e.name))
        /\ e.total = SumOccurrences(Occurrences(names, e.name))
        /\ e.min \in values /\ \A v \in values : e.min <= v
        /\ e.max \in values /\ \A v \in values : v <= e.max
        /\ e.average.num = e.total
        /\ e.average.den = e.count
        /\ e.min * e.average.den <= e.average.num
        /\ e.average.num <= e.max * e.average.den

\* The statistics hold one entry for each group of the analysis result, with
\* the group's entries
StatsCover(stats, data) ==
    /\ Len(stats) = Len(data)
    /\ \A g \in 1..Len(data) :
         \E n \in 1..Len(stats) :
             /\ stats[n].name = data[g].name
             /\ stats[n].tickets = data[g].tickets

(* C10: for every group of the aggregation output, count is the number of
   entries of the group, sum is the sum of their cycle_time_days, min and max
   are the smallest and the largest of them and mean is sum divided by count
   (so min <= mean <= max); an issue without a cycle time is not counted, as
   zero or otherwise. *)
C10_GroupStatistics ==
    /\ component_stats # None =>
           /\ StatsCover(Val(component_stats), Val(component_data))
           /\ \A n \in 1..Len(Val(component_stats)) :
                  StatsRight(Val(component_stats)[n],
                             [ i \in 1..Len(issues) |-> ComponentNames(issues[i]) ])
    /\ label_stats # None =>
           /\ StatsCover(Val(label_stats), Val(label_data))
           /\ \A n \in 1..Len(Val(label_stats)) :
                  StatsRight(Val(label_stats)[n],
                             [ i \in 1..Len(issues) |-> LabelNames(issues[i]) ])

\* The group "bug" of two issues, of 4 and of -4 days: count 2, sum 0, min -4,
\* max 4
C10_Witness ==
    /\ label_stats # None
    /\ \E n \in 1..Len(Val(label_stats)) :
         /\ Val(label_stats)[n].name = "bug"
         /\ Val(label_stats)[n].count = 2
         /\ Val(label_stats)[n].total = 0
         /\ Val(label_stats)[n].min = -4
         /\ Val(label_stats)[n].max = 4
         /\ Val(label_stats)[n].average = [num |-> 0, den |-> 2]

-----------------------------------------------------------------------------
\* The run went through its sections and main returned
Rendered == pc = << >> /\ issues # << >>

\* The kinds of the lines that were printed
Printed == { stdout[n].kind : n \in 1..Len(stdout) }

NonTabular == { "console", "markdown", "html", "confluence" }

ComponentSection == { "component_ranking", "component_breakdown", "component_no_data" }

LabelSection == { "label_ranking", "label_breakdown", "label_no_data" }

(* C11: in each of the console, markdown, html and confluence encodings, a
   run that rendered its issues has emitted the component section (ranking
   and breakdown by group) exactly when component analysis is enabled, and
   the label section exactly when label analysis is enabled. *)
C11_Claimed_SectionsByOption ==
    (Rendered /\ args.output_format \in NonTabular) =>
        /\ (Printed \cap ComponentSection # { }) <=> args.component_analysis
        /\ (component_stats # None) <=> args.component_analysis
        /\ (Printed \cap LabelSection # { }) <=> args.label_analysis
        /\ (label_stats # None) <=> args.label_analysis

-----------------------------------------------------------------------------
\* The table of the csv encoding: the header row and one row per issue
CsvTable ==
    << Line("csv_header") >>
    \o [ i \in 1..Len(issues) |-> IssueLine("csv_row", issues[i].key) ]

(* C12: a csv run that returned has printed exactly the header row followed
   by one row per supplied issue, in order, and no other line, whatever the
   analysis options. *)
C12_Claimed_CsvStreamExact ==
    (pc = << >> /\ args.output_format = "csv") => stdout = CsvTable

-----------------------------------------------------------------------------
\* The cycle time of issue i as calculate_cycle_time returns it
InfoOf(i) == calculate_cycle_time(issues[i], in_progress_statuses, done_statuses)

(* C13: the cycle time shown for each issue is the same in the five
   encodings (the one calculate_cycle_time returned for it, which is also
   the one the summary loop took), and the overall summary that was emitted
   is the one each of the four encodings that have a summary renders from
   the accumulated values. *)
C13_SameValuesInEveryEncoding ==
    /\ issue_rows # None =>
         /\ Len(Val(issue_rows)) = Len(issues)
         /\ \A i \in 1..Len(issues) : \A f \in Formats :
              /\ IssueRow(f, issues[i], InfoOf(i)).cycle_time
                   = Val(issue_rows)[i].cycle_time
              /\ Val(issue_rows)[i].cycle_time = cycle_infos[i].cycle_time_days
    /\ summary # None =>
         \A f \in NonTabular :
             SummaryFor(f, valid_cycle_times, total_cycle_time, Len(issues))
               = Val(summary)

\* A run that emitted a summary and a listing over two issues with the same
\* cycle time of 4 days
C13_Witness ==
    /\ pc = << >>
    /\ summary # None /\ ~Val(summary).no_data
    /\ Val(summary).count = 2 /\ Val(summary).total = 8
    /\ issue_rows # None
    /\ \A i \in 1..Len(issues) : Val(issue_rows)[i].cycle_time = Some(4)

-----------------------------------------------------------------------------
(* C14: the overall summary covers exactly the issues with a present cycle
   time: its count is their number, its total their sum, its min and max are
   attained among them and bound them, and the "no cycle time data" message
   stands in its place exactly when no supplied issue has a cycle time. *)
C14_SummaryOverPresent ==
    summary # None =>
        /\ Val(summary).no_data <=> WithCycleTime = { }
        /\ ~Val(summary).no_data =>
             /\ Val(summary).count = Cardinality(WithCycleTime)
             /\ Val(summary).issues_count = Len(issues)
             /\ Val(summary).total = SumDays(WithCycleTime)
             /\ Val(summary).average
                  = [num |-> SumDays(WithCycleTime),
                     den |-> Cardinality(WithCycleTime)]
             /\ \E i \in WithCycleTime : DaysOf(i) = Val(summary).min
             /\ \E i \in WithCycleTime : DaysOf(i) = Val(summary).max
             /\ \A i \in WithCycleTime :
                  /\ Val(summary).min <= DaysOf(i)
                  /\ DaysOf(i) <= Val(summary).max

\* A summary over a list of two issues of which one has a cycle time
C14_Witness ==
    /\ summary # None
    /\ ~Val(summary).no_data
    /\ Len(issues) = 2
    /\ Cardinality(WithCycleTime) = 1
    /\ Val(summary).count = 1
    /\ Val(summary).total = 4

-----------------------------------------------------------------------------
\* The entries of the per-issue section that were printed, in order
IssueLines ==
    SelectSeq(stdout, LAMBDA l : l.kind \in { "issue", "csv_row" })

\* The per-issue section lists every supplied issue once, in order
ListedOnce ==
    /\ Len(Val(issue_rows)) = Len(issues)
    /\ \A i \in 1..Len(issues) : Val(issue_rows)[i].key = issues[i].key
    /\ Len(IssueLines) = Len(issues)
    /\ \A i \in 1..Len(issues) : IssueLines[i].key = issues[i].key

\* Issue i is in no group of an analysis that ran
InNoGroup(i) ==
    /\ component_data # None => TicketsOf(Val(component_data), i) = { }
    /\ label_data # None => TicketsOf(Val(label_data), i) = { }

(* C15, as stated: in every encoding the per-issue section lists every
   supplied issue once, and an issue without a cycle time is in no group and
   is listed with the "Unable to calculate" marker. *)
C15_Claimed_MarkerInEveryEncoding ==
    issue_rows # None =>
        /\ ListedOnce
        /\ \A i \in 1..Len(issues) :
             cycle_infos[i].cycle_time_days = None =>
                 /\ InNoGroup(i)
                 /\ Val(issue_rows)[i].unable

(* C15: in every encoding the per-issue section lists every supplied issue
   once, and an issue without a cycle time is in no group; it is listed with
   the "Unable to calculate" marker in the console, markdown, html and
   confluence encodings, and with an empty day count and no marker in the csv
   encoding. *)
C15_ListedOnceMarkerOutsideCsv ==
    issue_rows # None =>
        /\ ListedOnce
        /\ \A i \in 1..Len(issues) :
             cycle_infos[i].cycle_time_days = None =>
                 /\ InNoGroup(i)
                 /\ Val(issue_rows)[i].cycle_time = None
                 /\ Val(issue_rows)[i].unable <=> args.output_format # "csv"

\* A markdown run with both analyses over two issues, the second without a
\* cycle time
C15_Witness ==
    /\ pc = << >>
    /\ args.output_format = "markdown"
    /\ component_data # None /\ label_data # None
    /\ issue_rows # None
    /\ Len(issues) = 2
    /\ cycle_infos[1].cycle_time_days # None
    /\ cycle_infos[2].cycle_time_days = None
    /\ Val(issue_rows)[2].unable
    /\ ~Val(issue_rows)[1].unable

-----------------------------------------------------------------------------
(* C16: when main is invoked a second time on the same issue list and
   configuration, the second run ends as the first did and leaves what the
   first left: the same output stream, summary, per-issue section and
   rankings, in the same order, over an issue list and a configuration that
   no stage has changed. *)
C16_SecondRunSame ==
    (first # None /\ Finished) => Outcome = Val(first)

\* A second run that ended after a summary with a total that is not 0 and a
\* ranking of two label groups
C16_Witness ==
    /\ first # None
    /\ pc = << >>
    /\ summary # None /\ ~Val(summary).no_data /\ Val(summary).total # 0
    /\ label_stats # None /\ Len(Val(label_stats)) = 2
    /\ Len(stdout) > Len(Preamble)

-----------------------------------------------------------------------------
\* The summary loop has been entered
Summarized == pc \notin { << "start" >>, << "search" >>, << "exit 2" >> }

\* The event lacks its timestamp, or a status item of it lacks its to-status
Malformed(e) ==
    \/ "created" \notin DOMAIN e
    \/ \E j \in 1..Len(Get(e, "items", << >>)) :
         /\ Get(e.items[j], "field", "") = "status"
         /\ "toString" \notin DOMAIN e.items[j]

\* The issue without the malformed events of its history
WithoutMalformed(issue) ==
    IF "changelog" \in DOMAIN issue /\ "histories" \in DOMAIN issue.changelog
    THEN [issue EXCEPT !.changelog.histories =
            SelectSeq(@, LAMBDA e : ~Malformed(e))]
    ELSE issue

(* C17: once the summary loop has run over the issues, every issue has the
   result that calculate_cycle_time gives for its history without the
   malformed events (events that lack their timestamp or their to-status),
   and the run has not ended in the failure exit of a calculation. *)
C17_Claimed_MalformedSkipped ==
    (Summarized /\ issues # << >>) =>
        /\ Len(cycle_infos) = Len(issues)
        /\ \A i \in 1..Len(issues) :
             cycle_infos[i] =
                 calculate_cycle_time(WithoutMalformed(issues[i]),
                                      in_progress_statuses, done_statuses)

-----------------------------------------------------------------------------
(* C18: for every issue list of a run, incomplete records included,
   calculate_cycle_time returns for each issue, and analyze_components and
   analyze_labels return for the list: none of them raises. *)
C18_Claimed_Total ==
    (Summarized /\ issues # << >>) =>
        /\ \A i \in 1..Len(issues) : ~InfoOf(i).raised
        /\ ~analyze_components(issues, in_progress_statuses, done_statuses).raised
        /\ ~analyze_labels(issues, in_progress_statuses, done_statuses).raised

-----------------------------------------------------------------------------
(* C19: with an --output-format outside console, markdown, html, confluence
   and csv the run prints nothing to its output and builds no section: it is
   at its start or has ended with the exit status of an argument error. *)
C19_UnrecognizedFormatFatal ==
    args.output_format \notin { "console", "markdown", "html", "confluence", "csv" } =>
        /\ pc \in { << "start" >>, << "exit 2" >> }
        /\ stdout = << >>
        /\ summary = None
        /\ issue_rows = None
        /\ component_stats = None
        /\ label_stats = None

\* The run with an unrecognized --output-format has ended
C19_Witness ==
    /\ args.output_format = Unrecognized
    /\ pc = << "exit 2" >>
    /\ issues # << >>
    /\ stdout = << >>

-----------------------------------------------------------------------------
\* What the run printed after the lines that precede the search result
Report == SubSeq(stdout, Len(Preamble) + 1, Len(stdout))

(* C20: a run of any of the five encodings over an empty issue list returns
   without the failure exit, and its report is the no-issues line of its
   encoding alone (for csv the header row); it calculates no cycle time and
   builds no summary, listing or analysis. *)
C20_EmptyListNotAnError ==
    (issues = << >> /\ args.output_format \in Formats /\ Summarized) =>
        /\ pc = << >>
        /\ Report =
             << Line(CASE args.output_format = "console" -> "console_no_issues"
                       [] args.output_format = "markdown" -> "markdown_no_issues"
                       [] args.output_format = "html" -> "html_no_issues"
                       [] args.output_format = "confluence" -> "confluence_no_issues"
                       [] args.output_format = "csv" -> "csv_header") >>
        /\ cycle_infos = << >>
        /\ valid_cycle_times = << >>
        /\ summary = None
        /\ issue_rows = None
        /\ component_data = None
        /\ label_data = None

\* A csv run over an empty issue list has returned after the header row
C20_Witness ==
    /\ issues = << >>
    /\ args.output_format = "csv"
    /\ args.component_analysis
    /\ pc = << >>
    /\ Report = << Line("csv_header") >>

-----------------------------------------------------------------------------
(* The column cleaner *)

\* The column named on the command line, in a configuration
TargetColumn(configuration) ==
    configuration.columnConfig.columns[
        find_column_by_name(configuration, c_args.column_name)]

\* clean_column_statuses has returned or raised and no update was sent: board
\* is the configuration as it was fetched
Cleaned == cleaned # None /\ puts = << >>

\* The statuses of the target column before the call
Original == Get(TargetColumn(board), "statuses", << >>)

\* The keep identifiers that are numbers, and the others in lower case
NumericKeepIds ==
    { keep_statuses[i] : i \in { i \in 1..Len(keep_statuses) :
                                   isdigit(keep_statuses[i]) } }

KeepNames ==
    { lower(keep_statuses[i]) : i \in { i \in 1..Len(keep_statuses) :
                                          ~isdigit(keep_statuses[i]) } }

\* The status is named in the keep list, by its id or by the name it has on
\* the server
Named(status) ==
    \/ status.id \in NumericKeepIds
    \/ lower(server[status.id].name) \in KeepNames

NotNamed(status) == ~Named(status)

(* C21, as stated: in keep mode (no remove_count) the returned column holds
   exactly the original statuses, in order, whose id is a numeric keep
   identifier or whose name is, case-insensitively, a keep name; every other
   status is in the removed list, and a status named in the keep list is never
   removed. *)
C21_Claimed_NamedNeverRemoved ==
    (Cleaned /\ c_args.remove_count = None /\ ~Val(cleaned).raised) =>
        /\ Val(Val(cleaned).new_column).statuses = SelectSeq(Original, Named)
        /\ Len(Val(cleaned).removed) = Len(SelectSeq(Original, NotNamed))

(* C22: with remove_count = N, for 0 <= N < len(statuses) the returned column
   holds the original statuses from position N on, in order, and the removed
   list has N entries; for N >= len(statuses) the call raises and returns no
   column; so for these N the returned column is never empty, and in every
   case the input column keeps its status list. A negative N is none of the
   claim's cases: only the last part is stated for it. *)
C22_RemovesFirstN ==
    (Cleaned /\ c_args.remove_count # None) =>
        LET N == Val(c_args.remove_count)
            r == Val(cleaned)
            n == Len(Original)
        IN  /\ (0 <= N /\ N < n) =>
                   /\ ~r.raised
                   /\ Val(r.new_column).statuses = SubSeq(Original, N + 1, n)
                   /\ Len(r.removed) = N
            /\ N >= n => (r.raised /\ r.new_column = None)
            /\ (N >= 0 /\ ~r.raised) => Val(r.new_column).statuses # << >>
            /\ r.column = TargetColumn(board)
            /\ r.column.statuses = Original

\* All the statuses of a full column but the last were removed, and the run
\* is at the prompt
C22_Witness ==
    /\ Cleaned
    /\ Len(Original) = MaxStatuses
    /\ c_args.remove_count = Some(MaxStatuses - 1)
    /\ ~Val(cleaned).raised
    /\ Len(Val(cleaned).removed) = MaxStatuses - 1
    /\ Val(Val(cleaned).new_column).statuses = << Original[MaxStatuses] >>
    /\ cpc = << "confirm" >>

\* The user answered y, in any case and with any spaces around it
Affirmed == answer # None /\ lower(strip(Val(answer))) = << "y" >>

(* C23: in every run the update (PUT) is issued at most once, and only after
   all of: --dry-run is not set, at least one status is to be removed, and the
   user answered y to the prompt (the answer is trimmed and lower-cased); with
   --dry-run, or with any other answer, no update is sent and the fetched
   configuration is not modified. *)
C23_UpdateOnlyWhenConfirmed ==
    /\ Len(puts) <= 1
    /\ puts # << >> =>
           /\ ~c_args.dry_run
           /\ cleaned # None
           /\ ~Val(cleaned).raised
           /\ Val(cleaned).removed # << >>
           /\ Affirmed
    /\ (c_args.dry_run \/ (answer # None /\ ~Affirmed)) =>
           /\ puts = << >>
           /\ config = board
    /\ puts = << >> => board \in { Board(n) : n \in 0..MaxStatuses }

\* The update was sent once after the answer " y ", and the board has the
\* cleaned column
C23_Witness ==
    /\ Len(puts) = 1
    /\ answer = Some(<< " ", "y", " " >>)
    /\ board = config
    /\ TargetColumn(board) = Val(Val(cleaned).new_column)
    /\ Len(TargetColumn(board).statuses) < MaxStatuses

(* C28, as stated: list_boards ends and returns every board of the server
   once, for every total and every page size of the server, pages shorter
   than maxResults that are not the last included. *)
C28_Claimed_EveryBoardOnce ==
    (board_server # None /\ cpc = << >>) =>
        all_boards = [ i \in 1..board_server.total |-> i ]

\* The result of removing the first N statuses of the column
FirstRemoved(r, N) ==
    ~r.raised =>
        /\ N >= 0
        /\ N <= Len(Original)
        /\ Val(r.new_column).statuses = SubSeq(Original, N + 1, Len(Original))
        /\ Len(r.removed) = N

(* C29, as stated: for every --remove-count, 0 included, when main has
   announced the statuses to keep the column is filtered by the keep list,
   and when it has announced the removal of the first N statuses the first N
   statuses are removed. *)
C29_Claimed_AnnouncedModeExecuted ==
    Cleaned =>
        /\ announced = Some("keep") =>
               Val(cleaned) = KeepOnly(TargetColumn(board), keep_statuses,
                                       Some(server))
        /\ announced = Some("remove") =>
               FirstRemoved(Val(cleaned), Val(c_args.remove_count))

-----------------------------------------------------------------------------
(* The groups of the aggregation and their order *)

\* The analysis results of the run that are there
Analyses ==
    (IF component_data # None THEN { Val(component_data) } ELSE { })
    \cup (IF label_data # None THEN { Val(label_data) } ELSE { })

(* C24: after analyze_components or analyze_labels no key of the returned
   mapping has an empty list, and every entry of every list has a cycle_time
   that is not absent: a group is there only if one of its members has a
   cycle time. *)
C24_NoEmptyGroup ==
    \A data \in Analyses :
        \A g \in 1..Len(data) :
            /\ data[g].tickets # << >>
            /\ \A k \in 1..Len(data[g].tickets) :
                   /\ data[g].tickets[k].cycle_info.cycle_time_days # None
                   /\ data[g].tickets[k].cycle_time =
                          Val(data[g].tickets[k].cycle_info.cycle_time_days)

\* The only issue labelled bug has no cycle time and another issue has one:
\* the mapping has the group "No labels" and no group "bug"
C24_Witness ==
    /\ label_data # None
    /\ component_data # None
    /\ Len(issues) = 2
    /\ issues[1].fields.labels = << "bug" >>
    /\ issues[2].fields.labels = << >>
    /\ 1 \notin WithCycleTime
    /\ 2 \in WithCycleTime
    /\ Len(Val(label_data)) = 1
    /\ Val(label_data)[1].name = "No labels"
    /\ ~HasGroup(Val(label_data), "bug")
    /\ ~HasGroup(Val(component_data), "api")

\* The position of the group of that name in an analysis result or a ranking
PositionOf(list, name) == CHOOSE g \in 1..Len(list) : list[g].name = name

\* The position in the supplied list of the issue with that key
Supplied(key) == CHOOSE i \in 1..Len(issues) : issues[i].key = key

\* The position of the first supplied issue that is in the group
FirstSupplied(group) ==
    LET S == { Supplied(group.tickets[k].key) : k \in 1..Len(group.tickets) }
    IN  CHOOSE i \in S : \A j \in S : i <= j

\* x = y of two quotients with positive denominators
SameQuotient(x, y) == x.num * y.den = y.num * x.den

\* stats ranks the groups of data
Ranks(stats, data) ==
    /\ Len(stats) = Len(data)
    /\ \A g \in 1..Len(data) :
           Cardinality({ n \in 1..Len(stats) : stats[n].name = data[g].name }) = 1
    /\ \A n, m \in 1..Len(stats) :
           n < m =>
               /\ ~QuotientLess(stats[n].average, stats[m].average)
               /\ SameQuotient(stats[n].average, stats[m].average) =>
                      PositionOf(data, stats[n].name) < PositionOf(data, stats[m].name)
    /\ \A g, h \in 1..Len(data) :
           g < h => FirstSupplied(data[g]) <= FirstSupplied(data[h])

(* C25: the ranking lists every group once, by descending mean cycle time,
   and groups of the same mean are in the order in which they were inserted
   into the mapping, which is the order in which their first contributing
   issues were supplied; the breakdown by group is printed from the same
   sorted list as the ranking. *)
C25_RankingDescendingStable ==
    /\ component_stats # None =>
           Ranks(Val(component_stats), Val(component_data))
    /\ label_stats # None =>
           Ranks(Val(label_stats), Val(label_data))

\* bug and urgent tie at 0 days and stay in that order behind "No labels",
\* which was inserted last and has 4 days
C25_Witness ==
    /\ label_stats # None
    /\ [ g \in 1..Len(Val(label_data)) |-> Val(label_data)[g].name ]
           = << "bug", "urgent", "No labels" >>
    /\ [ n \in 1..Len(Val(label_stats)) |-> Val(label_stats)[n].name ]
           = << "No labels", "bug", "urgent" >>
    /\ SameQuotient(Val(label_stats)[2].average, Val(label_stats)[3].average)
    /\ QuotientLess(Val(label_stats)[2].average, Val(label_stats)[1].average)

(* C26: within every group the entries are in the order in which their
   issues were supplied, and the per-issue listing, csv rows included, is in
   the order in which the issues were supplied, in every encoding. *)
C26_SupplyOrderPreserved ==
    /\ \A data \in Analyses :
           \A g \in 1..Len(data) :
               \A k, l \in 1..Len(data[g].tickets) :
                   k < l => Supplied(data[g].tickets[k].key)
                                < Supplied(data[g].tickets[l].key)
    /\ issue_rows # None =>
           /\ [ n \in 1..Len(Val(issue_rows)) |-> Val(issue_rows)[n].key ]
                  = [ i \in 1..Len(issues) |-> issues[i].key ]
           /\ [ n \in 1..Len(IssueLines) |-> IssueLines[n].key ]
                  = [ i \in 1..Len(issues) |-> issues[i].key ]

\* The group bug holds the first and the second issue in that order, and the
\* listing has their two entries in that order
C26_Witness ==
    /\ label_data # None
    /\ issue_rows # None
    /\ Len(issues) = 2
    /\ \E g \in 1..Len(Val(label_data)) :
           /\ Val(label_data)[g].name = "bug"
           /\ [ k \in 1..Len(Val(label_data)[g].tickets) |->
                  Val(label_data)[g].tickets[k].key ] = << Keys[1], Keys[2] >>
    /\ [ n \in 1..Len(IssueLines) |-> IssueLines[n].key ] = << Keys[1], Keys[2] >>

-----------------------------------------------------------------------------
(* The spelling of status names *)

Capitals == { "A", "C", "D", "E", "I", "N", "O", "P", "T", "V" }

UpperChar(c) ==
    IF \E u \in Capitals : u # c /\ LowerChar(u) = c
    THEN CHOOSE u \in Capitals : u # c /\ LowerChar(u) = c
    ELSE c

\* The name in capitals, with a space before it and a line end after it
Respelled(s) == << " " >> \o [ i \in 1..Len(s) |-> UpperChar(s[i]) ] \o << "\n" >>

RespelledList(statuses) == [ k \in 1..Len(statuses) |-> Respelled(statuses[k]) ]

\* The issue with every to-status respelled
RespelledIssue(issue) ==
    LET item(it) == IF "toString" \in DOMAIN it
                    THEN [it EXCEPT !.toString = Respelled(it.toString)]
                    ELSE it
        history(h) == [h EXCEPT !.items = [ k \in 1..Len(h.items) |-> item(h.items[k]) ]]
        histories == issue.changelog.histories
    IN  [issue EXCEPT !.changelog.histories =
            [ n \in 1..Len(histories) |-> history(histories[n]) ]]

\* The two names are equal after lower-casing and trimming
SameStatus(a, b) == strip(lower(a)) = strip(lower(b))

\* Issue i has a status item whose to-status is one of the names
Reaches(i, statuses) ==
    \E n \in 1..Len(HistoriesOf(i)) :
        \E k \in 1..Len(HistoriesOf(i)[n].items) :
            LET it == HistoriesOf(i)[n].items[k]
            IN  /\ it.field = "status"
                /\ \E s \in 1..Len(statuses) : SameStatus(it.toString, statuses[s])

\* Issue i has a status item whose to-status is a done name and no
\* in-progress name
ReachesDoneOnly(i) ==
    \E n \in 1..Len(HistoriesOf(i)) :
        \E k \in 1..Len(HistoriesOf(i)[n].items) :
            LET it == HistoriesOf(i)[n].items[k]
            IN  /\ it.field = "status"
                /\ \E s \in 1..Len(done_statuses) :
                       SameStatus(it.toString, done_statuses[s])
                /\ \A s \in 1..Len(in_progress_statuses) :
                       ~SameStatus(it.toString, in_progress_statuses[s])

(* C27: an event's to-status matches a configured status exactly when the
   two are equal after lower-casing and trimming leading and trailing
   whitespace, so another case or other surrounding whitespace of the
   configured names or of the to-statuses leaves the computed timestamps as
   they are. *)
C27_MatchingIgnoresCaseAndSpace ==
    \A i \in 1..Len(cycle_infos) :
        /\ cycle_infos[i].in_progress_date # None
               <=> Reaches(i, in_progress_statuses)
        /\ cycle_infos[i].done_date # None <=> ReachesDoneOnly(i)
        /\ cycle_infos[i] = calculate_cycle_time(RespelledIssue(issues[i]),
                                                 in_progress_statuses,
                                                 done_statuses)
        /\ cycle_infos[i] = calculate_cycle_time(issues[i],
                                                 RespelledList(in_progress_statuses),
                                                 RespelledList(done_statuses))

\* Configured as ACTIVE and done, the issue went to "Active" and then to
\* " DONE", and both timestamps were found
C27_Witness ==
    /\ Calculated
    /\ in_progress_statuses = << ActiveUpper >>
    /\ done_statuses = << DoneLower >>
    /\ HistoriesOf(1) = << Event(1, 0, Active),
                           [created |-> Created(5, 12),
                            items |-> << StatusItem(DoneSpelled) >>] >>
    /\ cycle_infos[1].in_progress_date = Some(24)
    /\ cycle_infos[1].done_date = Some(132)
    /\ cycle_infos[1].cycle_time_days = Some(4)

-----------------------------------------------------------------------------
\* The keys of the entries of a group
KeysOf(group) == { group.tickets[k].key : k \in 1..Len(group.tickets) }

(* C30, as stated: in the output of analyze_components and analyze_labels
   each issue key is at most once in the list of any group, so the count of
   a group is the number of distinct issues in it, also for issues whose
   label list or component list repeats a value. *)
C30_Claimed_OncePerGroup ==
    /\ \A data \in Analyses :
           \A g \in 1..Len(data) :
               \A k, l \in 1..Len(data[g].tickets) :
                   k # l => data[g].tickets[k].key # data[g].tickets[l].key
    /\ label_stats # None =>
           \A n \in 1..Len(Val(label_stats)) :
               Val(label_stats)[n].count = Cardinality(KeysOf(Val(label_stats)[n]))
    /\ component_stats # None =>
           \A n \in 1..Len(Val(component_stats)) :
               Val(component_stats)[n].count
                   = Cardinality(KeysOf(Val(component_stats)[n]))

=============================================================================
